---- MODULE Spec2Model ----
(***************************************************************************)
(* State-machine model of lyrlib-api's request-orchestration layer: the    *)
(* TTL cache (src/src/cache.ts), the fixed-window rate limiter and the     *)
(* orchestrating client with its timeout race (src/src/rateLimiter.ts).    *)
(*                                                                         *)
(* Time is Date.now() in milliseconds.  JavaScript's null/undefined are    *)
(* modelled as the empty tuple and a present value v as <<v>>.             *)
(***************************************************************************)
EXTENDS Integers, Sequences, FiniteSets, TLC

VARIABLES
    now,          \* Date.now()
    state,        \* RateLimiter.state
    maxRequests,  \* RateLimiter.maxRequests
    windowMs,     \* RateLimiter.windowMs
    cache,        \* Cache.cache : Map<string, CacheEntry>
    defaultTTL,   \* Cache.defaultTTL
    shadow,       \* history: per key, the arguments of the latest set not yet deleted/cleared
    admitted,     \* history: checkLimit() calls that returned since the window last started
    last,         \* history: the latest call made on the object under test and what it returned
    options,      \* Client.options
    calls,        \* the client calls made so far, in the order they were made
    ops,          \* provider operations in flight (their promises are pending)
    timers,       \* withTimeout's timers not yet fired (setTimeout is never cleared)
    raceLog,      \* history: per call and withTimeout, what settled and what was delivered
    invoked,      \* history: provider invocations started in the limiter's current window
    providerCalls, \* history: provider invocations started so far
    completed,    \* history: per operation, query and options, what a call last fetched and when
    keyed,        \* history: the Cache.generateKey calls made so far, with the keys they returned
    heap,         \* per object a caller hands to Cache.set, the in-place writes made to it so far
    retryRun,     \* one call of retry(fn, maxRetries, baseDelay): its locals and where it stands
    returnedAt,   \* history: the instants at which the checkLimit() calls on a limiter returned
    twin,         \* a second Cache.cache, given the same calls as the first except clean()
    debounced     \* the closure debounce returned: its timeout, the timers set, func's runs

limiterVars == <<state, maxRequests, windowMs, admitted>>
cacheVars == <<cache, defaultTTL, shadow>>
clientVars == <<options, calls, ops, timers, raceLog, invoked, providerCalls, completed, keyed,
               heap, retryRun, returnedAt, twin, debounced>>

vars == <<now, state, maxRequests, windowMs, cache, defaultTTL, shadow, admitted, last,
          options, calls, ops, timers, raceLog, invoked, providerCalls, completed, keyed, heap,
          retryRun, returnedAt, twin, debounced>>

----------------------------------------------------------------------------
(* Bounds of the model *)

\* largest maxRequests a limiter is constructed with
MaxMaxRequests == 2
\* number of whole windows the clock may run through
MaxWindows == 2
\* extra milliseconds the clock may run beyond the last whole window
MaxExtraMs == 2
\* largest ttl (ms) given to Cache.set or to the Cache constructor
MaxTTL == 2
\* last instant (ms) of a run of the cache on its own
MaxCacheTime == 4

(* Program constants *)

\* default window of a RateLimiter, and the window the Client constructs it with
DefaultWindowMs == 60000

NULL == <<>>
Some(v) == <<v>>
Value(o) == o[1]

Keys == {"k1", "k2"}
Values == {"v1", "v2"}

----------------------------------------------------------------------------
(* Strings are sequences of one-character strings.  Alphabet lists the characters *)
(* the model uses in UTF-16 code-unit order, the order Array.prototype.sort and    *)
(* the < operator compare strings by.                                              *)

Alphabet == <<"\n", " ", "\"", ",", ".", "0", "1", "2", "3", "4", "5", "6", "7", "8", "9", ":", "A", "B", "I", "M", "[", "]", "_", "a", "b", "c", "d", "e", "f", "g", "h", "i", "j", "k", "l", "m", "n", "o", "p", "q", "r", "s", "t", "u", "v", "w", "x", "y", "z", "{", "|", "}">>

Ord(ch) == CHOOSE i \in 1..Len(Alphabet) : Alphabet[i] = ch

\* a < b for strings
RECURSIVE StrLess(_, _)
StrLess(a, b) ==
    IF b = <<>> THEN FALSE
    ELSE IF a = <<>> THEN TRUE
    ELSE IF Head(a) = Head(b) THEN StrLess(Tail(a), Tail(b))
    ELSE Ord(Head(a)) < Ord(Head(b))

\* String.prototype.toLowerCase, on the letters of Alphabet
LowerChar(ch) == IF ch = "A" THEN "a" ELSE IF ch = "B" THEN "b" ELSE ch
toLowerCase(s) == [i \in 1..Len(s) |-> LowerChar(s[i])]

IsSpace(ch) == ch = " " \/ ch = "\n"

RECURSIVE TrimStart(_)
TrimStart(s) == IF s # <<>> /\ IsSpace(Head(s)) THEN TrimStart(Tail(s)) ELSE s

RECURSIVE TrimEnd(_)
TrimEnd(s) ==
    IF s # <<>> /\ IsSpace(s[Len(s)]) THEN TrimEnd(SubSeq(s, 1, Len(s) - 1)) ELSE s

\* String.prototype.trim
trim(s) == TrimEnd(TrimStart(s))

\* Array.prototype.join
RECURSIVE Join(_, _)
Join(parts, sep) ==
    IF parts = <<>> THEN <<>>
    ELSE IF Len(parts) = 1 THEN parts[1]
    ELSE parts[1] \o sep \o Join(Tail(parts), sep)

Digit(d) == <<"0", "1", "2", "3", "4", "5", "6", "7", "8", "9">>[d + 1]

\* Number.prototype.toString for a natural number
RECURSIVE NumToString(_)
NumToString(n) ==
    IF n < 10 THEN <<Digit(n)>> ELSE NumToString(n \div 10) \o <<Digit(n % 10)>>

\* String.prototype.padStart(width, "0")
RECURSIVE PadStart0(_, _)
PadStart0(s, width) == IF Len(s) >= width THEN s ELSE PadStart0(<<"0">> \o s, width)

S_track_name == <<"t", "r", "a", "c", "k", "_", "n", "a", "m", "e">>
S_artist_name == <<"a", "r", "t", "i", "s", "t", "_", "n", "a", "m", "e">>
S_album_name == <<"a", "l", "b", "u", "m", "_", "n", "a", "m", "e">>
S_limit == <<"l", "i", "m", "i", "t">>
S_include_metadata == <<"i", "n", "c", "l", "u", "d", "e", "_", "m", "e", "t", "a", "d", "a", "t", "a">>
S_prefer_synced == <<"p", "r", "e", "f", "e", "r", "_", "s", "y", "n", "c", "e", "d">>
S_includeMetadata == <<"i", "n", "c", "l", "u", "d", "e", "M", "e", "t", "a", "d", "a", "t", "a">>
S_format == <<"f", "o", "r", "m", "a", "t">>
S_synced == <<"s", "y", "n", "c", "e", "d">>
S_trackId == <<"t", "r", "a", "c", "k", "I", "d">>
S_search == <<"s", "e", "a", "r", "c", "h">>
S_lyrics_by_id == <<"l", "y", "r", "i", "c", "s", "_", "b", "y", "_", "i", "d">>
S_lyrics_by_metadata == <<"l", "y", "r", "i", "c", "s", "_", "b", "y", "_", "m", "e", "t", "a", "d", "a", "t", "a">>
S_unsynced == <<"u", "n", "s", "y", "n", "c", "e", "d">>
S_metadata == <<"m", "e", "t", "a", "d", "a", "t", "a">>
S_true == <<"t", "r", "u", "e">>
S_false == <<"f", "a", "l", "s", "e">>
S_undefined == <<"u", "n", "d", "e", "f", "i", "n", "e", "d">>
S_json == <<"j", "s", "o", "n">>
S_plain == <<"p", "l", "a", "i", "n">>
S_lrc == <<"l", "r", "c">>

(* JavaScript values that end up in a template string *)
StrV(s) == [t |-> "string", v |-> s]
BoolV(b) == [t |-> "boolean", v |-> b]
NumV(n) == [t |-> "number", v |-> n]
UndefV == [t |-> "undefined"]

\* `${value}`
ToStr(val) ==
    IF val.t = "string" THEN val.v
    ELSE IF val.t = "boolean" THEN (IF val.v THEN S_true ELSE S_false)
    ELSE IF val.t = "number" THEN NumToString(val.v)
    ELSE S_undefined

\* !!value
Truthy(val) ==
    IF val.t = "string" THEN val.v # <<>>
    ELSE IF val.t = "boolean" THEN val.v
    ELSE IF val.t = "number" THEN val.v # 0
    ELSE FALSE

(* Objects used as parameter maps are sequences of <<name, value>> pairs in        *)
(* insertion order, names distinct.                                                *)
Names(obj) == [i \in 1..Len(obj) |-> obj[i][1]]
Has(obj, name) == \E i \in 1..Len(obj) : obj[i][1] = name
Get(obj, name) ==
    IF Has(obj, name) THEN (obj[CHOOSE i \in 1..Len(obj) : obj[i][1] = name])[2] ELSE UndefV

\* obj[name] = value
Put(obj, name, value) ==
    IF Has(obj, name)
    THEN [i \in 1..Len(obj) |-> IF obj[i][1] = name THEN <<name, value>> ELSE obj[i]]
    ELSE Append(obj, <<name, value>>)

\* { ...a, ...b }
RECURSIVE Spread(_, _)
Spread(a, b) == IF b = <<>> THEN a ELSE Spread(Put(a, b[1][1], b[1][2]), Tail(b))

\* Array.prototype.sort() on distinct strings
RECURSIVE SortStrings(_)
SortStrings(ss) ==
    IF ss = <<>> THEN <<>>
    ELSE LET m == CHOOSE i \in 1..Len(ss) : \A j \in 1..Len(ss) : j = i \/ StrLess(ss[i], ss[j])
         IN  <<ss[m]>> \o SortStrings([k \in 1..(Len(ss) - 1) |-> IF k < m THEN ss[k] ELSE ss[k + 1]])

\* generateKey that leaves the prefix out of the key
generateKey_noPrefix(prefix, query) ==
    LET sortedKeys == SortStrings(Names(query))
        keyParts == [i \in 1..Len(sortedKeys) |->
                        sortedKeys[i] \o <<":">> \o ToStr(Get(query, sortedKeys[i]))]
    IN  Join(keyParts, <<"|">>)

\* generateKey that joins the parameters in insertion order, without sorting their names
generateKey_unsorted(prefix, query) ==
    LET keyParts == [i \in 1..Len(query) |-> query[i][1] \o <<":">> \o ToStr(query[i][2])]
    IN  prefix \o <<":">> \o Join(keyParts, <<"|">>)

\* Cache.generateKey(prefix, query)
generateKey(prefix, query) ==
    LET sortedKeys == SortStrings(Names(query))
        keyParts == [i \in 1..Len(sortedKeys) |->
                        sortedKeys[i] \o <<":">> \o ToStr(Get(query, sortedKeys[i]))]
    IN  prefix \o <<":">> \o Join(keyParts, <<"|">>)

----------------------------------------------------------------------------
(* utils: validateQuery, similarity and score, formatLyrics *)

Ok(v) == [kind |-> "return", value |-> v]
\* a thrown error: its class, and (history) the class of the error it was made from
Throw(name, origin) == [kind |-> "throw", name |-> name, origin |-> origin]

IsString(val) == val.t = "string"

\* validateQuery without the trim().length === 0 tests
validateQuery_acceptsBlank(query) ==
    IF ~Truthy(Get(query, S_track_name)) \/ ~Truthy(Get(query, S_artist_name))
    THEN Throw("ValidationError", "ValidationError")
    ELSE Ok(<<<<S_track_name, StrV(trim(Get(query, S_track_name).v))>>,
              <<S_artist_name, StrV(trim(Get(query, S_artist_name).v))>>>>)

\* validateQuery that tests the track name only
validateQuery_trackOnly(query) ==
    LET tn == Get(query, S_track_name)
    IN  IF ~Truthy(tn) \/ ~IsString(tn) \/ Len(trim(tn.v)) = 0
        THEN Throw("ValidationError", "ValidationError")
        ELSE Ok(<<<<S_track_name, StrV(trim(tn.v))>>>>)

\* validateQuery(query): the LyricsQuery it returns, or the ValidationError it throws
validateQuery(query) ==
    LET tn == Get(query, S_track_name)
        an == Get(query, S_artist_name)
        al == Get(query, S_album_name)
    IN  IF ~Truthy(tn) \/ ~Truthy(an) THEN Throw("ValidationError", "ValidationError")
        ELSE IF ~IsString(tn) \/ Len(trim(tn.v)) = 0
             THEN Throw("ValidationError", "ValidationError")
        ELSE IF ~IsString(an) \/ Len(trim(an.v)) = 0
             THEN Throw("ValidationError", "ValidationError")
        ELSE IF Truthy(al) /\ (~IsString(al) \/ Len(trim(al.v)) = 0)
             THEN Throw("ValidationError", "ValidationError")
        ELSE LET result == <<<<S_track_name, StrV(trim(tn.v))>>,
                             <<S_artist_name, StrV(trim(an.v))>>>>
             IN  Ok(IF Truthy(al) THEN Put(result, S_album_name, StrV(trim(al.v)))
                    ELSE result)

(* Numbers that are not integers are exact fractions [n, d] in lowest terms, d > 0. *)
RECURSIVE GCD(_, _)
GCD(a, b) == IF b = 0 THEN a ELSE GCD(b, a % b)
Frac(n, d) == LET g == GCD(n, d) IN IF n = 0 THEN [n |-> 0, d |-> 1] ELSE [n |-> n \div g, d |-> d \div g]
FAdd(x, y) == Frac(x.n * y.d + y.n * x.d, x.d * y.d)
FMul(x, y) == Frac(x.n * y.n, x.d * y.d)
FDiv(x, y) == Frac(x.n * y.d, x.d * y.n)
FLess(x, y) == x.n * y.d < y.n * x.d

Min3(a, b, c) == IF a <= b /\ a <= c THEN a ELSE IF b <= c THEN b ELSE c
Max2(a, b) == IF a >= b THEN a ELSE b

\* row j of calculateSimilarity's matrix from row j - 1: cells 0..Len(s1), held at 1..Len(s1)+1
RECURSIVE MatrixRow(_, _, _, _, _)
MatrixRow(prev, s1, s2, j, done) ==
    LET i == Len(done)
    IN  IF i > Len(s1) THEN done
        ELSE LET cost == IF s1[i] = s2[j] THEN 0 ELSE 1
                 cell == Min3(done[i] + 1, prev[i + 1] + 1, prev[i] + cost)
             IN  MatrixRow(prev, s1, s2, j, Append(done, cell))

RECURSIVE MatrixRows(_, _, _, _)
MatrixRows(prev, s1, s2, j) ==
    IF j > Len(s2) THEN prev
    ELSE MatrixRows(MatrixRow(prev, s1, s2, j, <<j>>), s1, s2, j + 1)

\* matrix[s2.length][s1.length]
EditDistance(s1, s2) ==
    MatrixRows([i \in 1..(Len(s1) + 1) |-> i - 1], s1, s2, 1)[Len(s1) + 1]

\* calculateSimilarity that divides by the length of the first string
calculateSimilarity_overFirst(str1, str2) ==
    LET s1 == trim(toLowerCase(str1))
        s2 == trim(toLowerCase(str2))
    IN  IF s1 = s2 THEN Frac(1, 1)
        ELSE Frac(Len(s1) - EditDistance(s1, s2), Max2(Len(s1), 1))

\* calculateSimilarity(str1, str2)
calculateSimilarity(str1, str2) ==
    LET s1 == trim(toLowerCase(str1))
        s2 == trim(toLowerCase(str2))
        maxLength == Max2(Len(s1), Len(s2))
    IN  IF s1 = s2 THEN Frac(1, 1)
        ELSE IF maxLength = 0 THEN Frac(1, 1)
        ELSE Frac(maxLength - EditDistance(s1, s2), maxLength)

\* calculateSearchScore(query, metadata): weights 0.4, 0.4 and 0.2
calculateSearchScore(query, metadata) ==
    LET tn == Get(query, S_track_name)
        an == Get(query, S_artist_name)
        al == Get(query, S_album_name)
        zero == Frac(0, 1)
        useT == Truthy(tn)
        useA == Truthy(an)
        useL == Truthy(al) /\ metadata.albumName # <<>>
        score == FAdd(FAdd(
                    IF useT THEN FMul(calculateSimilarity(tn.v, metadata.trackName), Frac(4, 10)) ELSE zero,
                    IF useA THEN FMul(calculateSimilarity(an.v, metadata.artistName), Frac(4, 10)) ELSE zero),
                    IF useL THEN FMul(calculateSimilarity(al.v, metadata.albumName), Frac(2, 10)) ELSE zero)
        factors == FAdd(FAdd(IF useT THEN Frac(4, 10) ELSE zero,
                             IF useA THEN Frac(4, 10) ELSE zero),
                             IF useL THEN Frac(2, 10) ELSE zero)
    IN  IF FLess(zero, factors) THEN FDiv(score, factors) ELSE zero

\* (a, b) => b.score - a.score, as its sign
ScoreCompare(a, b) ==
    IF FLess(a.score, b.score) THEN 1 ELSE IF FLess(b.score, a.score) THEN -1 ELSE 0

\* a sort step that puts x before the elements it compares equal to
InsertBeforeEqual(sorted, x) ==
    LET k == Cardinality({i \in 1..Len(sorted) : ScoreCompare(sorted[i], x) < 0})
    IN  SubSeq(sorted, 1, k) \o <<x>> \o SubSeq(sorted, k + 1, Len(sorted))

\* a sort step of Array.prototype.sort, which is stable: x goes after every element that
\* does not have to come after it
InsertStable(sorted, x) ==
    LET k == Cardinality({i \in 1..Len(sorted) : ScoreCompare(sorted[i], x) <= 0})
    IN  SubSeq(sorted, 1, k) \o <<x>> \o SubSeq(sorted, k + 1, Len(sorted))

\* results.sort((a, b) => b.score - a.score)
RECURSIVE sortSearchResults(_)
sortSearchResults(results) ==
    IF results = <<>> THEN <<>>
    ELSE InsertStable(sortSearchResults(SubSeq(results, 1, Len(results) - 1)),
                      results[Len(results)])

\* createSearchResult(metadata, query)
createSearchResult(metadata, query) ==
    [metadata |-> metadata,
     score |-> calculateSearchScore(query, metadata),
     hasSyncedLyrics |-> metadata.syncedLyrics # NULL /\ Value(metadata.syncedLyrics) # <<>>,
     hasUnsyncedLyrics |-> metadata.plainLyrics # NULL /\ Value(metadata.plainLyrics) # <<>>]

(* A lyrics line is [text |-> s] (unsynced) or [text |-> s, startTime |-> ms] (synced). *)
HasStartTime(line) == "startTime" \in DOMAIN line

\* isSyncedLyrics(lyrics)
isSyncedLyrics(lyrics) == Len(lyrics) > 0 /\ HasStartTime(lyrics[1])

S_NaN == <<"N", "a", "N">>

\* one line of formatToLRC
LrcLine(line) ==
    LET known == HasStartTime(line)
        minutes == IF known THEN NumToString(line.startTime \div 60000) ELSE S_NaN
        seconds == IF known THEN NumToString((line.startTime % 60000) \div 1000) ELSE S_NaN
        centiseconds == IF known THEN NumToString((line.startTime % 1000) \div 10) ELSE S_NaN
    IN  <<"[">> \o PadStart0(minutes, 2) \o <<":">> \o PadStart0(seconds, 2) \o <<".">>
            \o PadStart0(centiseconds, 2) \o <<"]">> \o line.text

\* formatToLRC(lyrics)
formatToLRC(lyrics) == Join([i \in 1..Len(lyrics) |-> LrcLine(lyrics[i])], <<"\n">>)

\* a string as JSON.stringify quotes it
RECURSIVE JsonEscape(_)
JsonEscape(s) ==
    IF s = <<>> THEN <<>>
    ELSE (IF Head(s) = "\"" THEN <<"\\", "\"">>
          ELSE IF Head(s) = "\n" THEN <<"\\", "n">>
          ELSE <<Head(s)>>) \o JsonEscape(Tail(s))

JsonLine(line) ==
    <<" ", " ", "{", "\n", " ", " ", " ", " ", "\"", "t", "e", "x", "t", "\"", ":", " ", "\"">> \o JsonEscape(line.text) \o <<"\"">>
        \o (IF HasStartTime(line)
            THEN <<",", "\n", " ", " ", " ", " ", "\"", "s", "t", "a", "r", "t", "T", "i", "m", "e", "\"", ":", " ">> \o NumToString(line.startTime)
            ELSE <<>>)
        \o <<"\n", " ", " ", "}">>

\* JSON.stringify(lyrics, null, 2)
JsonStringify(lyrics) ==
    IF lyrics = <<>> THEN <<"[", "]">>
    ELSE <<"[", "\n">> \o Join([i \in 1..Len(lyrics) |-> JsonLine(lyrics[i])], <<",", "\n">>)
             \o <<"\n", "]">>

\* formatLyrics(lyrics, format, metadata): format NULL is the default 'json'
formatLyrics(lyrics, format, metadata) ==
    IF format = Some(S_plain)
    THEN Ok([content |-> Join([i \in 1..Len(lyrics) |-> lyrics[i].text], <<"\n">>),
             format |-> S_plain, metadata |-> metadata])
    ELSE IF format = Some(S_lrc)
    THEN IF ~isSyncedLyrics(lyrics) THEN Throw("ValidationError", "ValidationError")
         ELSE Ok([content |-> formatToLRC(lyrics), format |-> S_lrc, metadata |-> metadata])
    ELSE Ok([content |-> JsonStringify(lyrics), format |-> S_json, metadata |-> metadata])

----------------------------------------------------------------------------
(* RateLimiter *)

\* a state whose window started when the clock read 0
NewRateLimitState_atZero(t) == [requests |-> 0, windowStart |-> 0, isLimited |-> FALSE]

NewRateLimitState(t) == [requests |-> 0, windowStart |-> t, isLimited |-> FALSE]

\* a / b rounded down instead of up
Ceil_roundsDown(a, b) == a \div b

\* Math.ceil(a / b) for b > 0
Ceil(a, b) == IF a % b = 0 THEN a \div b ELSE (a \div b) + 1

\* checkLimit with the failing path counting the request
checkLimit_countsRejected(st, maxReq, wMs, t) ==
    LET s1 == IF t - st.windowStart >= wMs THEN NewRateLimitState(t) ELSE st
    IN  IF s1.requests >= maxReq
        THEN [state |-> [s1 EXCEPT !.isLimited = TRUE, !.requests = @ + 1],
              error |-> "RateLimitError",
              waitSeconds |-> Ceil((s1.windowStart + wMs) - t, 1000)]
        ELSE [state |-> [s1 EXCEPT !.requests = @ + 1],
              error |-> "none", waitSeconds |-> 0]

\* checkLimit whose window reset forgets to zero the count
checkLimit_keepsCount(st, maxReq, wMs, t) ==
    LET s1 == IF t - st.windowStart >= wMs
              THEN [st EXCEPT !.windowStart = t, !.isLimited = FALSE] ELSE st
    IN  IF s1.requests >= maxReq
        THEN [state |-> [s1 EXCEPT !.isLimited = TRUE],
              error |-> "RateLimitError",
              waitSeconds |-> Ceil((s1.windowStart + wMs) - t, 1000)]
        ELSE [state |-> [s1 EXCEPT !.requests = @ + 1],
              error |-> "none", waitSeconds |-> 0]

\* checkLimit that starts a new window as soon as the clock has moved
checkLimit_restartsEachMs(st, maxReq, wMs, t) ==
    LET s1 == IF t - st.windowStart >= 1 THEN NewRateLimitState(t) ELSE st
    IN  IF s1.requests >= maxReq
        THEN [state |-> [s1 EXCEPT !.isLimited = TRUE],
              error |-> "RateLimitError",
              waitSeconds |-> Ceil((s1.windowStart + wMs) - t, 1000)]
        ELSE [state |-> [s1 EXCEPT !.requests = @ + 1],
              error |-> "none", waitSeconds |-> 0]

\* checkLimit that rejects only once the count is past the limit
checkLimit_admitsAtLimit(st, maxReq, wMs, t) ==
    LET s1 == IF t - st.windowStart >= wMs THEN NewRateLimitState(t) ELSE st
    IN  IF s1.requests > maxReq
        THEN [state |-> [s1 EXCEPT !.isLimited = TRUE],
              error |-> "RateLimitError",
              waitSeconds |-> Ceil((s1.windowStart + wMs) - t, 1000)]
        ELSE [state |-> [s1 EXCEPT !.requests = @ + 1],
              error |-> "none", waitSeconds |-> 0]

\* RateLimiter.checkLimit(): the state it leaves and the error it throws ("none": returns)
checkLimit(st, maxReq, wMs, t) ==
    LET timeSinceWindowStart == t - st.windowStart
        s1 == IF timeSinceWindowStart >= wMs THEN NewRateLimitState(t) ELSE st
    IN  IF s1.requests >= maxReq
        THEN [state |-> [s1 EXCEPT !.isLimited = TRUE],
              error |-> "RateLimitError",
              waitSeconds |-> Ceil((s1.windowStart + wMs) - t, 1000)]
        ELSE [state |-> [s1 EXCEPT !.requests = @ + 1],
              error |-> "none", waitSeconds |-> 0]

\* getStatus that reports an empty window
getStatus_emptyWindow(st, maxReq, wMs) ==
    [requests |-> 0, maxRequests |-> maxReq,
     resetTime |-> st.windowStart + wMs, isLimited |-> FALSE]

\* RateLimiter.getStatus()
getStatus(st, maxReq, wMs) ==
    [requests |-> st.requests, maxRequests |-> maxReq,
     resetTime |-> st.windowStart + wMs, isLimited |-> st.isLimited]

----------------------------------------------------------------------------
(* Cache *)

Remove(c, key) == [k \in (DOMAIN c) \ {key} |-> c[k]]

Expired(entry, t) == t - entry.timestamp > entry.ttl

\* get that treats an entry of age exactly ttl as expired
CacheGet_expiresAtTtl(c, key, t) ==
    IF key \notin DOMAIN c THEN [cache |-> c, value |-> NULL]
    ELSE IF t - c[key].timestamp >= c[key].ttl
         THEN [cache |-> Remove(c, key), value |-> NULL]
         ELSE [cache |-> c, value |-> Some(c[key].data)]

\* get that reports an expired entry absent but leaves it stored
CacheGet_noEvict(c, key, t) ==
    IF key \notin DOMAIN c THEN [cache |-> c, value |-> NULL]
    ELSE IF Expired(c[key], t)
         THEN [cache |-> c, value |-> NULL]
         ELSE [cache |-> c, value |-> Some(c[key].data)]

\* Cache.get(key): the map it leaves and the value it returns
CacheGet(c, key, t) ==
    IF key \notin DOMAIN c THEN [cache |-> c, value |-> NULL]
    ELSE IF Expired(c[key], t)
         THEN [cache |-> Remove(c, key), value |-> NULL]
         ELSE [cache |-> c, value |-> Some(c[key].data)]

\* set that keeps the timestamp of the entry it overwrites
CacheSet_keepsTimestamp(c, key, value, ttl, dTTL, t) ==
    LET entry == [data |-> value,
                  timestamp |-> IF key \in DOMAIN c THEN c[key].timestamp ELSE t,
                  ttl |-> IF ttl = NULL THEN dTTL ELSE Value(ttl)]
    IN  [k \in (DOMAIN c) \cup {key} |-> IF k = key THEN entry ELSE c[k]]

\* Cache.set(key, value, ttl?): ttl is NULL when the argument is left out
CacheSet(c, key, value, ttl, dTTL, t) ==
    LET entry == [data |-> value, timestamp |-> t,
                  ttl |-> IF ttl = NULL THEN dTTL ELSE Value(ttl)]
    IN  [k \in (DOMAIN c) \cup {key} |-> IF k = key THEN entry ELSE c[k]]

\* delete that empties the map
CacheDelete_all(c, key) == [cache |-> [k \in {} |-> NULL], existed |-> key \in DOMAIN c]

\* Cache.delete(key)
CacheDelete(c, key) == [cache |-> Remove(c, key), existed |-> key \in DOMAIN c]

\* Cache.clear()
CacheClear(c) == [k \in {} |-> NULL]

\* Cache.size()
CacheSize(c) == Cardinality(DOMAIN c)

\* clean that also removes the entries whose age is exactly their ttl
CacheClean_atTtl(c, t) ==
    LET dead == {k \in DOMAIN c : t - c[k].timestamp >= c[k].ttl}
    IN  [cache |-> [k \in (DOMAIN c) \ dead |-> c[k]], cleaned |-> Cardinality(dead)]

\* clean that removes every entry
CacheClean_all(c, t) ==
    [cache |-> [k \in {} |-> NULL], cleaned |-> Cardinality(DOMAIN c)]

\* clean that reports every stored entry as cleaned
CacheClean_countsAll(c, t) ==
    LET dead == {k \in DOMAIN c : Expired(c[k], t)}
    IN  [cache |-> [k \in (DOMAIN c) \ dead |-> c[k]], cleaned |-> Cardinality(DOMAIN c)]

\* Cache.clean()
CacheClean(c, t) ==
    LET dead == {k \in DOMAIN c : Expired(c[k], t)}
    IN  [cache |-> [k \in (DOMAIN c) \ dead |-> c[k]], cleaned |-> Cardinality(dead)]

----------------------------------------------------------------------------
(* The limiter on its own: new RateLimiter(maxRequests, windowMs) and calls on it *)

NoCall == [op |-> "none"]

\* retry has not been called
NoRetry == [pc |-> "idle"]

\* debounce has not been called
NoDebounce == [made |-> FALSE]

\* no client is constructed
NoClient ==
    /\ options = [enableCache |-> FALSE, enableRateLimit |-> FALSE, cacheTTL |-> 0,
                  maxRequestsPerMinute |-> 0, requestTimeout |-> 0]
    /\ calls = <<>>
    /\ ops = {}
    /\ timers = {}
    /\ raceLog = <<>>
    /\ invoked = 0
    /\ providerCalls = 0
    /\ completed = [k \in {} |-> NULL]
    /\ keyed = <<>>
    /\ heap = [v \in Values |-> 0]
    /\ retryRun = NoRetry
    /\ returnedAt = <<>>
    /\ twin = [k \in {} |-> NULL]
    /\ debounced = NoDebounce

InitLimiter ==
    /\ now = 0
    /\ maxRequests \in 0..MaxMaxRequests
    /\ windowMs = DefaultWindowMs
    /\ state = NewRateLimitState(0)
    /\ cache = [k \in {} |-> NULL]
    /\ defaultTTL = 0
    /\ shadow = [k \in Keys |-> NULL]
    /\ admitted = 0
    /\ last = NoCall
    /\ NoClient

CacheUnchanged == UNCHANGED <<cacheVars, clientVars>>
LimiterConfigUnchanged == UNCHANGED <<maxRequests, windowMs>>

\* history kept beside a checkLimit() call that took the limiter from st to r.state
Admitted(n, st, r) ==
    (IF r.state.windowStart # st.windowStart THEN 0 ELSE n)
        + (IF r.error = "none" THEN 1 ELSE 0)

CallCheckLimit ==
    LET r == checkLimit(state, maxRequests, windowMs, now)
    IN  /\ state' = r.state
        /\ admitted' = Admitted(admitted, state, r)
        /\ last' = [op |-> "checkLimit", error |-> r.error, waitSeconds |-> r.waitSeconds,
                    pre |-> state, preAdmitted |-> admitted]
        /\ UNCHANGED now /\ LimiterConfigUnchanged /\ CacheUnchanged

CallGetStatus ==
    /\ last' = [op |-> "getStatus", ret |-> getStatus(state, maxRequests, windowMs),
                pre |-> state]
    /\ UNCHANGED <<now, state, admitted>> /\ LimiterConfigUnchanged /\ CacheUnchanged

CallReset ==
    /\ state' = NewRateLimitState(now)
    /\ admitted' = 0
    /\ last' = [op |-> "reset", pre |-> state]
    /\ UNCHANGED now /\ LimiterConfigUnchanged /\ CacheUnchanged

\* the instants the clock is observed at: within MaxExtraMs after a multiple of the
\* window length, or 1 ms before one
ClockValue(t) ==
    /\ t <= MaxWindows * DefaultWindowMs + MaxExtraMs
    /\ \/ t % DefaultWindowMs <= MaxExtraMs
       \/ t % DefaultWindowMs = DefaultWindowMs - 1

\* the clock moves on by d ms
LimiterAdvance(d) ==
    /\ ClockValue(now + d)
    /\ now' = now + d
    /\ last' = NoCall
    /\ UNCHANGED <<state, admitted>> /\ LimiterConfigUnchanged /\ CacheUnchanged

LimiterDeltas == {1, DefaultWindowMs - 1, DefaultWindowMs}

NextLimiter ==
    \/ CallCheckLimit
    \/ CallGetStatus
    \/ CallReset
    \/ \E d \in LimiterDeltas : LimiterAdvance(d)

SpecLimiter == InitLimiter /\ [][NextLimiter]_vars

----------------------------------------------------------------------------
(* The cache on its own: new Cache(defaultTTL) and calls on it *)

InitCache ==
    /\ now = 0
    /\ maxRequests = 0
    /\ windowMs = DefaultWindowMs
    /\ state = NewRateLimitState(0)
    /\ admitted = 0
    /\ cache = [k \in {} |-> NULL]
    /\ defaultTTL \in 0..MaxTTL
    /\ shadow = [k \in Keys |-> NULL]
    /\ last = NoCall
    /\ NoClient

LimiterUnchanged == UNCHANGED <<limiterVars, clientVars>>

\* ttls a caller passes to set: none (the default applies) or 0..MaxTTL ms
TTLArgs == {NULL} \cup {Some(n) : n \in 0..MaxTTL}

\* history: the entry the map holds under key, if any
Entry(c, key) == IF key \in DOMAIN c THEN Some(c[key]) ELSE NULL

CallSet(key, value, ttl) ==
    /\ cache' = CacheSet(cache, key, value, ttl, defaultTTL, now)
    /\ shadow' = [shadow EXCEPT ![key] =
                     Some([data |-> value, timestamp |-> now,
                           ttl |-> IF ttl = NULL THEN defaultTTL ELSE Value(ttl)])]
    /\ last' = [op |-> "set", key |-> key, value |-> value, ttl |-> ttl,
                before |-> Entry(cache, key)]
    /\ UNCHANGED <<now, defaultTTL>> /\ LimiterUnchanged

CallGet(key) ==
    LET r == CacheGet(cache, key, now)
    IN  /\ cache' = r.cache
        /\ last' = [op |-> "get", key |-> key, ret |-> r.value,
                    sizeBefore |-> CacheSize(cache)]
        /\ UNCHANGED <<now, defaultTTL, shadow>> /\ LimiterUnchanged

CallDelete(key) ==
    LET r == CacheDelete(cache, key)
    IN  /\ cache' = r.cache
        /\ shadow' = [shadow EXCEPT ![key] = NULL]
        /\ last' = [op |-> "delete", key |-> key, ret |-> r.existed,
                    before |-> Entry(cache, key)]
        /\ UNCHANGED <<now, defaultTTL>> /\ LimiterUnchanged

CallClear ==
    /\ cache' = CacheClear(cache)
    /\ shadow' = [k \in Keys |-> NULL]
    /\ last' = [op |-> "clear"]
    /\ UNCHANGED <<now, defaultTTL>> /\ LimiterUnchanged

CallClean ==
    LET r == CacheClean(cache, now)
    IN  /\ cache' = r.cache
        /\ last' = [op |-> "clean", ret |-> r.cleaned]
        /\ UNCHANGED <<now, defaultTTL, shadow>> /\ LimiterUnchanged

\* the clock moves on by 1 ms
CacheTick ==
    /\ now < MaxCacheTime
    /\ now' = now + 1
    /\ last' = NoCall
    /\ UNCHANGED <<cache, defaultTTL, shadow>> /\ LimiterUnchanged

NextCache ==
    \/ \E key \in Keys, value \in Values, ttl \in TTLArgs : CallSet(key, value, ttl)
    \/ \E key \in Keys : CallGet(key)
    \/ \E key \in Keys : CallDelete(key)
    \/ CallClear
    \/ CallClean
    \/ CacheTick

SpecCache == InitCache /\ [][NextCache]_vars

----------------------------------------------------------------------------
(* The cache and a caller that keeps what get returns.  The values of a Cache<T> of    *)
(* objects are references: set stores the reference it is given and get returns        *)
(* entry.data, the same reference; the heap holds what each object contains.           *)

\* how many times a caller writes to one object
MaxWrites == 1
\* last instant (ms) of a run of the cache with such a caller
MaxAliasTime == 1

\* what a caller reads through the reference get returned (null when get returned null)
Deref(h, ret) == IF ret = NULL THEN NULL ELSE Some([object |-> Value(ret), writes |-> h[Value(ret)]])

\* the caller writes to the object the get it has just made returned: ret.field = ...
CallerWrites ==
    /\ last.op = "get"
    /\ last.ret # NULL
    /\ heap[Value(last.ret)] < MaxWrites
    /\ heap' = [heap EXCEPT ![Value(last.ret)] = @ + 1]
    /\ last' = [op |-> "write", object |-> Value(last.ret)]
    /\ UNCHANGED <<now, state, maxRequests, windowMs, admitted, cache, defaultTTL, shadow,
                   options, calls, ops, timers, raceLog, invoked, providerCalls, completed,
                   keyed, retryRun, returnedAt, twin, debounced>>

AliasTick == now < MaxAliasTime /\ CacheTick

NextAlias ==
    \/ \E key \in Keys, value \in Values, ttl \in TTLArgs : CallSet(key, value, ttl)
    \/ \E key \in Keys : CallGet(key)
    \/ \E key \in Keys : CallDelete(key)
    \/ CallClear
    \/ CallClean
    \/ AliasTick
    \/ CallerWrites

SpecAlias == InitCache /\ [][NextAlias]_vars

----------------------------------------------------------------------------
(* Cache.generateKey on its own: a static, pure function of its two arguments *)

\* how many generateKey calls one run makes
MaxKeyCalls == 2
\* largest number of parameters in a parameter map given to generateKey
MaxParams == 2

\* the prefixes the Client passes, and one that already ends in the separator
ClientPrefixes ==
    {S_search, S_unsynced, S_synced, S_metadata, S_lyrics_by_metadata, S_lyrics_by_id}
KeyPrefixes == ClientPrefixes \cup {S_search \o <<":">>}

\* parameter names (upper case sorts before lower case) and values of each type, one of
\* them a string that contains both separators
KeyNames == {<<"a">>, <<"B">>}
KeyValues == <<StrV(<<"x">>), NumV(10), BoolV(TRUE), UndefV, StrV(<<"x", "|", "a", ":", "x">>)>>

\* every insertion order of up to MaxParams distinct names, each with the index of its value
ParamShapes ==
    {m \in UNION {[1..n -> KeyNames \X (1..Len(KeyValues))] : n \in 0..MaxParams} :
        \A i, j \in 1..Len(m) : i # j => m[i][1] # m[j][1]}
\* Record<string, any>
ParamMap(shape) == [i \in 1..Len(shape) |-> <<shape[i][1], KeyValues[shape[i][2]]>>]

InitKey ==
    /\ now = 0
    /\ maxRequests = 0
    /\ windowMs = DefaultWindowMs
    /\ state = NewRateLimitState(0)
    /\ admitted = 0
    /\ cache = [k \in {} |-> NULL]
    /\ defaultTTL = 0
    /\ shadow = [k \in Keys |-> NULL]
    /\ last = NoCall
    /\ NoClient

CallGenerateKey(prefix, query) ==
    /\ Len(keyed) < MaxKeyCalls
    /\ keyed' = Append(keyed, [prefix |-> prefix, query |-> query,
                               key |-> generateKey(prefix, query)])
    /\ UNCHANGED <<now, last, options, calls, ops, timers, raceLog, invoked,
                   providerCalls, completed, heap, retryRun, returnedAt, twin, debounced>>
    /\ UNCHANGED <<cacheVars, limiterVars>>

NextKey ==
    \E prefix \in KeyPrefixes, shape \in ParamShapes : CallGenerateKey(prefix, ParamMap(shape))

SpecKey == InitKey /\ [][NextKey]_vars

----------------------------------------------------------------------------
(* Client: its options, the provider it calls, and one call's steps *)

\* how many client calls one run makes
MaxCalls == 2
\* ClientOptions.cacheTTL (ms) the client is constructed with
ClientCacheTTL == 1
\* ClientOptions.requestTimeout (ms) the client is constructed with
ClientRequestTimeout == 1
\* ClientOptions.maxRequestsPerMinute the client is constructed with
ClientMaxRequests == 1
\* how far (ms) the client's clock runs past the start of a rate-limit window
MaxClientMs == 1

\* what lrclib-api's findLyrics resolves with for a track it knows
ProviderMetadata ==
    [id |-> 1, name |-> <<"a">>, trackName |-> <<"a">>, artistName |-> <<"c">>,
     albumName |-> <<"d">>, duration |-> 180, instrumental |-> FALSE,
     plainLyrics |-> Some(<<"x">>), syncedLyrics |-> NULL]
\* what lrclib-api's getUnsynced / getSynced resolve with for a track with lyrics
ProviderUnsynced == <<[text |-> <<"a">>]>>
ProviderSynced == <<[text |-> <<"a">>, startTime |-> 1000]>>

Resolve(v) == [kind |-> "resolve", value |-> v]
Reject(name) == [kind |-> "reject", name |-> name]

\* how a provider operation can settle: absence (null), a value, or a failure
ProviderOutcomes(method) ==
    {Resolve(NULL), Reject("ProviderError"),
     Resolve(Some(IF method = "findLyrics" THEN ProviderMetadata
                  ELSE IF method = "getUnsynced" THEN ProviderUnsynced
                  ELSE ProviderSynced))}

\* adaptLrclibMetadata(metadata)
adaptLrclibMetadata(metadata) ==
    [id |-> metadata.id, name |-> metadata.name, trackName |-> metadata.trackName,
     artistName |-> metadata.artistName, albumName |-> metadata.albumName,
     duration |-> metadata.duration, instrumental |-> metadata.instrumental,
     plainLyrics |-> metadata.plainLyrics, syncedLyrics |-> metadata.syncedLyrics]

\* adaptLrclibLyrics(lyrics)
adaptLrclibLyrics(lyrics) == IF lyrics = NULL THEN <<>> ELSE Value(lyrics)

\* Array.prototype.slice(0, limit) for limit >= 0
Slice0(seq, limit) == SubSeq(seq, 1, IF limit < Len(seq) THEN limit ELSE Len(seq))

(* The part of the state a call's code reads and writes, passed through its steps. *)
World ==
    [cache |-> cache, state |-> state, admitted |-> admitted, ops |-> ops,
     timers |-> timers, invoked |-> invoked, providerCalls |-> providerCalls]

Commit(w) ==
    /\ cache' = w.cache
    /\ state' = w.state
    /\ admitted' = w.admitted
    /\ ops' = w.ops
    /\ timers' = w.timers
    /\ invoked' = w.invoked
    /\ providerCalls' = w.providerCalls

\* if (this.options.enableCache) { cached = this.cache.get(cacheKey) }
CacheCheck(w, key) ==
    IF options.enableCache
    THEN LET r == CacheGet(w.cache, key, now)
         IN  [w |-> [w EXCEPT !.cache = r.cache], value |-> r.value]
    ELSE [w |-> w, value |-> NULL]

\* the rate check that lets every call through uncounted
RateCheck_uncounted(w) == [w |-> w, error |-> "none"]

\* if (this.options.enableRateLimit) { this.rateLimiter.checkLimit() }
RateCheck(w) ==
    IF options.enableRateLimit
    THEN LET r == checkLimit(w.state, maxRequests, windowMs, now)
         IN  [w |-> [w EXCEPT !.state = r.state,
                              !.admitted = Admitted(w.admitted, w.state, r),
                              !.invoked = IF r.state.windowStart # w.state.windowStart
                                          THEN 0 ELSE @],
              error |-> r.error]
    ELSE [w |-> w, error |-> "none"]

\* the cache store that is skipped
CacheStore_skipped(w, key, value) == w

\* the cache store made whether or not caching is enabled
CacheStore_always(w, key, value) ==
    [w EXCEPT !.cache = CacheSet(w.cache, key, value, NULL, defaultTTL, now)]

\* if (this.options.enableCache) { this.cache.set(cacheKey, value) }
CacheStore(w, key, value) ==
    IF options.enableCache
    THEN [w EXCEPT !.cache = CacheSet(w.cache, key, value, NULL, defaultTTL, now)]
    ELSE w

\* the rejection of withTimeout's timer, were it to resolve with null instead
TimerOutcome_resolves == Resolve(NULL)

\* reject(new TimeoutError())
TimerOutcome == Reject("TimeoutError")

\* withTimeout that calls fn() and arms no timer
withTimeout_noTimer(w, id, stage, method) ==
    [w EXCEPT !.ops = @ \cup {[id |-> id, stage |-> stage, method |-> method]},
              !.providerCalls = @ + 1,
              !.invoked = IF now - w.state.windowStart < windowMs THEN @ + 1 ELSE @]

\* withTimeout(fn, timeoutMs): fn() starts the provider operation, setTimeout arms the timer
withTimeout(w, id, stage, method) ==
    [w EXCEPT !.ops = @ \cup {[id |-> id, stage |-> stage, method |-> method]},
              !.timers = @ \cup {[id |-> id, stage |-> stage,
                                  deadline |-> now + options.requestTimeout]},
              !.providerCalls = @ + 1,
              !.invoked = IF now - w.state.windowStart < windowMs THEN @ + 1 ELSE @]

\* catch (error) { if (error instanceof NotFoundError) throw error; throw new Error(...) }
CatchRethrowNotFound(e) ==
    IF e.name = "NotFoundError" THEN e ELSE Throw("Error", e.origin)

\* catch (error) { throw new Error(...) }
CatchWrapAll(e) == Throw("Error", e.origin)

\* a step of a call: where it stands afterwards
Await(w, pc, held) == [w |-> w, pc |-> pc, held |-> held, outcome |-> NULL]
Finish(w, held, res) == [w |-> w, pc |-> "done", held |-> held, outcome |-> Some(res)]

AwaitPc(stage) == IF stage = 1 THEN "await1" ELSE "await2"

(* searchSong; stage is the await of the top-level call its withTimeout belongs to *)

SearchDefaults ==
    <<<<S_limit, NumV(10)>>, <<S_include_metadata, BoolV(TRUE)>>,
      <<S_prefer_synced, BoolV(FALSE)>>>>

SearchKey(validatedQuery, opts) ==
    generateKey(S_search, Spread(validatedQuery, Spread(SearchDefaults, opts)))

\* try { checkLimit(); await withTimeout(findLyrics) ...: rc is the rate check's result
searchSongRequest(id, stage, rc) ==
    IF rc.error # "none"
    THEN Finish(rc.w, NULL, CatchRethrowNotFound(Throw(rc.error, rc.error)))
    ELSE Await(withTimeout(rc.w, id, stage, "findLyrics"), AwaitPc(stage), NULL)

\* if (cached) return cached: cc is the cache check's result
searchSongLookup(id, stage, cc) ==
    IF cc.value # NULL THEN Finish(cc.w, NULL, Ok(Value(cc.value)))
    ELSE searchSongRequest(id, stage, RateCheck(cc.w))

\* v is what validateQuery(query) returned or threw
searchSongValidated(w, id, stage, opts, v) ==
    IF v.kind = "throw" THEN Finish(w, NULL, v)
    ELSE searchSongLookup(id, stage, CacheCheck(w, SearchKey(v.value, opts)))

\* searchSong up to its await
searchSongBegin(w, id, stage, query, opts) ==
    searchSongValidated(w, id, stage, opts, validateQuery(query))

\* cache.set(cacheKey, results); return results
searchSongFound(w, key, results) == Finish(CacheStore(w, key, results), NULL, Ok(results))

\* searchSong that caches an empty result list when its provider call fails
searchSongResume_cachesFailure(w, query, opts, outcome) ==
    IF outcome.kind = "reject"
    THEN Finish(CacheStore(w, SearchKey(validateQuery(query).value, opts), <<>>), NULL,
                CatchRethrowNotFound(Throw(outcome.name, outcome.name)))
    ELSE IF outcome.value = NULL
    THEN Finish(w, NULL, Throw("NotFoundError", "NotFoundError"))
    ELSE searchSongFound(w, SearchKey(validateQuery(query).value, opts),
             Slice0(<<createSearchResult(adaptLrclibMetadata(Value(outcome.value)),
                                         validateQuery(query).value)>>,
                    Get(Spread(SearchDefaults, opts), S_limit).v))

\* searchSong from the settling of its withTimeout
searchSongResume(w, query, opts, outcome) ==
    IF outcome.kind = "reject"
    THEN Finish(w, NULL, CatchRethrowNotFound(Throw(outcome.name, outcome.name)))
    ELSE IF outcome.value = NULL
    THEN Finish(w, NULL, Throw("NotFoundError", "NotFoundError"))
    ELSE searchSongFound(w, SearchKey(validateQuery(query).value, opts),
             Slice0(<<createSearchResult(adaptLrclibMetadata(Value(outcome.value)),
                                         validateQuery(query).value)>>,
                    Get(Spread(SearchDefaults, opts), S_limit).v))

(* findLyrics *)

MetadataKey(validatedQuery) == generateKey(S_metadata, validatedQuery)

findLyricsRequest(id, rc) ==
    IF rc.error # "none"
    THEN Finish(rc.w, NULL, CatchRethrowNotFound(Throw(rc.error, rc.error)))
    ELSE Await(withTimeout(rc.w, id, 1, "findLyrics"), "await1", NULL)

findLyricsLookup(id, cc) ==
    IF cc.value # NULL THEN Finish(cc.w, NULL, Ok(Value(cc.value)))
    ELSE findLyricsRequest(id, RateCheck(cc.w))

findLyricsValidated(w, id, v) ==
    IF v.kind = "throw" THEN Finish(w, NULL, v)
    ELSE findLyricsLookup(id, CacheCheck(w, MetadataKey(v.value)))

findLyricsBegin(w, id, query) == findLyricsValidated(w, id, validateQuery(query))

findLyricsFound(w, key, metadata) ==
    Finish(CacheStore(w, key, metadata), NULL, Ok(metadata))

findLyricsResume(w, query, outcome) ==
    IF outcome.kind = "reject"
    THEN Finish(w, NULL, CatchRethrowNotFound(Throw(outcome.name, outcome.name)))
    ELSE IF outcome.value = NULL
    THEN Finish(w, NULL, Throw("NotFoundError", "NotFoundError"))
    ELSE findLyricsFound(w, MetadataKey(validateQuery(query).value),
                         adaptLrclibMetadata(Value(outcome.value)))

(* getUnsynced and getSynced: the same code but for the provider method and the prefix *)

LyricsPrefix(op) == IF op = "getUnsynced" THEN S_unsynced ELSE S_synced
LyricsKey(op, validatedQuery, opts) ==
    generateKey(LyricsPrefix(op), Spread(validatedQuery, opts))

\* options.format || 'json'
FormatOrJson(opts) ==
    IF Truthy(Get(opts, S_format)) THEN Some(Get(opts, S_format).v) ELSE Some(S_json)

lyricsRequest(id, op, rc) ==
    IF rc.error # "none" THEN Finish(rc.w, NULL, CatchWrapAll(Throw(rc.error, rc.error)))
    ELSE Await(withTimeout(rc.w, id, 1, op), "await1", NULL)

lyricsLookup(id, op, cc) ==
    IF cc.value # NULL THEN Finish(cc.w, NULL, Ok(Value(cc.value)))
    ELSE lyricsRequest(id, op, RateCheck(cc.w))

lyricsValidated(w, id, op, opts, v) ==
    IF v.kind = "throw" THEN Finish(w, NULL, v)
    ELSE lyricsLookup(id, op, CacheCheck(w, LyricsKey(op, v.value, opts)))

lyricsBegin(w, id, op, query, opts) == lyricsValidated(w, id, op, opts, validateQuery(query))

\* f is what formatLyrics returned or threw
lyricsFormatted(w, key, lyrics, f) ==
    IF f.kind = "throw" THEN Finish(w, Some(lyrics), CatchWrapAll(f))
    ELSE Finish(CacheStore(w, key, f.value), Some(lyrics), Ok(f.value))

\* from formatLyrics to the return
lyricsFinish(w, op, query, opts, lyrics, metadata) ==
    lyricsFormatted(w, LyricsKey(op, validateQuery(query).value, opts), lyrics,
                    formatLyrics(lyrics, FormatOrJson(opts), metadata))

lyricsResume(w, id, c, stage, outcome) ==
    IF outcome.kind = "reject"
    THEN Finish(w, c.held, CatchWrapAll(Throw(outcome.name, outcome.name)))
    ELSE IF stage = 1
    THEN IF Truthy(Get(c.opts, S_includeMetadata))
         THEN Await(withTimeout(w, id, 2, "findLyrics"), "await2",
                    Some(adaptLrclibLyrics(outcome.value)))
         ELSE lyricsFinish(w, c.op, c.query, c.opts, adaptLrclibLyrics(outcome.value), NULL)
    ELSE lyricsFinish(w, c.op, c.query, c.opts, Value(c.held),
                      IF outcome.value # NULL
                      THEN Some(adaptLrclibMetadata(Value(outcome.value))) ELSE NULL)

(* getLyricsByMetadata: c.query is the query it builds from { title, artist, album } *)

LyricsDefaults ==
    <<<<S_synced, BoolV(FALSE)>>, <<S_includeMetadata, BoolV(TRUE)>>,
      <<S_format, StrV(S_json)>>>>

ByMetadataKey(query, opts) ==
    generateKey(S_lyrics_by_metadata, Spread(query, Spread(LyricsDefaults, opts)))

LimitOne == <<<<S_limit, NumV(1)>>>>

\* from the search results to the second await
byMetadataAfterSearch(w, id, opts, searchResults) ==
    IF Len(searchResults) = 0
    THEN Finish(w, NULL, Throw("NotFoundError", "NotFoundError"))
    ELSE Await(withTimeout(w, id, 2,
                           IF Truthy(Get(Spread(LyricsDefaults, opts), S_synced))
                           THEN "getSynced" ELSE "getUnsynced"),
               "await2", Some(searchResults[1].metadata))

\* await this.searchSong(query, { limit: 1 }): sr is where that call stands
byMetadataSearched(id, opts, sr) ==
    IF sr.pc # "done" THEN sr
    ELSE IF Value(sr.outcome).kind = "throw"
    THEN Finish(sr.w, NULL, CatchRethrowNotFound(Value(sr.outcome)))
    ELSE byMetadataAfterSearch(sr.w, id, opts, Value(sr.outcome).value)

byMetadataRequest(id, query, opts, rc) ==
    IF rc.error # "none"
    THEN Finish(rc.w, NULL, CatchRethrowNotFound(Throw(rc.error, rc.error)))
    ELSE byMetadataSearched(id, opts, searchSongBegin(rc.w, id, 1, query, LimitOne))

\* getLyricsByMetadata that leaves the rate check to its nested searchSong
byMetadataLookup_oneCheck(id, query, opts, cc) ==
    IF cc.value # NULL THEN Finish(cc.w, NULL, Ok(Value(cc.value)))
    ELSE byMetadataRequest(id, query, opts, [w |-> cc.w, error |-> "none"])

byMetadataLookup(id, query, opts, cc) ==
    IF cc.value # NULL THEN Finish(cc.w, NULL, Ok(Value(cc.value)))
    ELSE byMetadataRequest(id, query, opts, RateCheck(cc.w))

byMetadataBegin(w, id, query, opts) ==
    byMetadataLookup(id, query, opts, CacheCheck(w, ByMetadataKey(query, opts)))

byMetadataFormatted(w, key, held, f) ==
    IF f.kind = "throw" THEN Finish(w, held, CatchRethrowNotFound(f))
    ELSE Finish(CacheStore(w, key, f.value), held, Ok(f.value))

\* formatLyrics(lyrics, lyricsOptions.format, includeMetadata ? trackMetadata : undefined)
byMetadataFormat(lyrics, lyricsOptions, trackMetadata) ==
    formatLyrics(lyrics,
                 IF IsString(Get(lyricsOptions, S_format))
                 THEN Some(Get(lyricsOptions, S_format).v) ELSE NULL,
                 IF Truthy(Get(lyricsOptions, S_includeMetadata)) THEN trackMetadata
                 ELSE NULL)

byMetadataResume(w, id, c, stage, outcome) ==
    IF stage = 1
    THEN byMetadataSearched(id, c.opts, searchSongResume(w, c.query, LimitOne, outcome))
    ELSE IF outcome.kind = "reject"
    THEN Finish(w, c.held, CatchRethrowNotFound(Throw(outcome.name, outcome.name)))
    ELSE byMetadataFormatted(w, ByMetadataKey(c.query, c.opts), c.held,
             byMetadataFormat(adaptLrclibLyrics(outcome.value),
                              Spread(LyricsDefaults, c.opts), c.held))

(* getLyricsById: c.query is { trackId } *)

ByIdKey(query, opts) ==
    generateKey(S_lyrics_by_id, Spread(query, Spread(LyricsDefaults, opts)))

\* getLyricsById that gives its request back to the limiter before it fails
byIdRequest_refunds(rc) ==
    IF rc.error # "none"
    THEN Finish(rc.w, NULL, CatchRethrowNotFound(Throw(rc.error, rc.error)))
    ELSE Finish([rc.w EXCEPT !.state.requests = IF @ > 0 THEN @ - 1 ELSE 0], NULL,
                Throw("NotFoundError", "NotFoundError"))

\* getLyricsById that returns lyrics without content once the rate check has passed
byIdRequest_returns(rc) ==
    IF rc.error # "none"
    THEN Finish(rc.w, NULL, CatchRethrowNotFound(Throw(rc.error, rc.error)))
    ELSE Finish(rc.w, NULL, Ok(<<>>))

\* the method has no provider operation to call: it throws NotFoundError
byIdRequest(rc) ==
    IF rc.error # "none"
    THEN Finish(rc.w, NULL, CatchRethrowNotFound(Throw(rc.error, rc.error)))
    ELSE Finish(rc.w, NULL, Throw("NotFoundError", "NotFoundError"))

byIdLookup(cc) ==
    IF cc.value # NULL THEN Finish(cc.w, NULL, Ok(Value(cc.value)))
    ELSE byIdRequest(RateCheck(cc.w))

byIdBegin(w, query, opts) == byIdLookup(CacheCheck(w, ByIdKey(query, opts)))

(* A call's resumption when what it awaits settles *)

Resume(w, id, c, stage, outcome) ==
    IF c.op = "searchSong" THEN searchSongResume(w, c.query, c.opts, outcome)
    ELSE IF c.op = "findLyrics" THEN findLyricsResume(w, c.query, outcome)
    ELSE IF c.op \in {"getUnsynced", "getSynced"} THEN lyricsResume(w, id, c, stage, outcome)
    ELSE byMetadataResume(w, id, c, stage, outcome)

\* a race in which whatever settles is delivered, however late
Delivered_always(c, stage) == TRUE

\* Promise.race: the call still awaits this withTimeout, so what settles now is delivered
Delivered(c, stage) == c.pc = AwaitPc(stage)

\* what the settling of (id, stage) does to call c: resumes it, or nothing
Race(w, id, c, stage, outcome) ==
    IF Delivered(c, stage) THEN Resume(w, id, c, stage, outcome)
    ELSE [w |-> w, pc |-> c.pc, held |-> c.held, outcome |-> c.outcome]

----------------------------------------------------------------------------
(* The client: new Client(options), the calls made on it, and what settles *)

\* new Client(options), for maxRequestsPerMinute among limits
NewClient(limits) ==
    /\ now = 0
    /\ options \in [enableCache : BOOLEAN, enableRateLimit : BOOLEAN,
                    cacheTTL : {ClientCacheTTL},
                    maxRequestsPerMinute : limits,
                    requestTimeout : {ClientRequestTimeout}]
    /\ maxRequests = options.maxRequestsPerMinute
    /\ windowMs = DefaultWindowMs
    /\ state = NewRateLimitState(0)
    /\ admitted = 0
    /\ cache = [k \in {} |-> NULL]
    /\ defaultTTL = options.cacheTTL
    /\ shadow = [k \in Keys |-> NULL]
    /\ last = NoCall
    /\ keyed = <<>>
    /\ heap = [v \in Values |-> 0]
    /\ retryRun = NoRetry
    /\ returnedAt = <<>>
    /\ twin = [k \in {} |-> NULL]
    /\ debounced = NoDebounce
    /\ calls = <<>>
    /\ ops = {}
    /\ timers = {}
    /\ raceLog = <<>>
    /\ invoked = 0
    /\ providerCalls = 0
    /\ completed = [k \in {} |-> NULL]

InitClient == NewClient({ClientMaxRequests})

ClientConfigUnchanged ==
    UNCHANGED <<options, maxRequests, windowMs, defaultTTL, shadow, keyed, heap, retryRun,
               returnedAt, twin, debounced>>

NoRace == [settled |-> <<>>, delivered |-> <<>>]

\* a call is made and has run to its first await, or to its end: r is where it stands
Start(op, query, opts, r) ==
    /\ Commit(r.w)
    /\ calls' = Append(calls, [op |-> op, query |-> query, opts |-> opts, at |-> now,
                               pc |-> r.pc, held |-> r.held, outcome |-> r.outcome])
    /\ raceLog' = Append(raceLog, <<NoRace, NoRace>>)
    /\ last' = NoCall
    /\ UNCHANGED <<now, completed>> /\ ClientConfigUnchanged

\* the queries callers pass: one that validates (and needs trimming), one whose track
\* name is blank, one with no artist name
ClientQueries ==
    {<<<<S_track_name, StrV(<<"A", " ">>)>>, <<S_artist_name, StrV(<<"b">>)>>>>,
     <<<<S_track_name, StrV(<<" ">>)>>, <<S_artist_name, StrV(<<"b">>)>>>>,
     <<<<S_track_name, StrV(<<"A", " ">>)>>>>}
SearchOptionSets == {<<>>}
UnsyncedOptionSets == {<<>>, <<<<S_includeMetadata, BoolV(TRUE)>>>>}
SyncedOptionSets == {<<<<S_format, StrV(S_lrc)>>>>}
TrackInfos == {[title |-> StrV(<<"A", " ">>), artist |-> StrV(<<"b">>), album |-> UndefV]}
LyricsOptionSets == {<<>>}
TrackIds == {1, 2}
ByIdOptionSets == {<<>>, <<<<S_synced, BoolV(TRUE)>>, <<S_format, StrV(S_lrc)>>>>}

SearchSong(query, opts) ==
    /\ Len(calls) < MaxCalls
    /\ Start("searchSong", query, opts, searchSongBegin(World, Len(calls) + 1, 1, query, opts))

FindLyrics(query) ==
    /\ Len(calls) < MaxCalls
    /\ Start("findLyrics", query, <<>>, findLyricsBegin(World, Len(calls) + 1, query))

GetUnsynced(query, opts) ==
    /\ Len(calls) < MaxCalls
    /\ Start("getUnsynced", query, opts,
             lyricsBegin(World, Len(calls) + 1, "getUnsynced", query, opts))

GetSynced(query, opts) ==
    /\ Len(calls) < MaxCalls
    /\ Start("getSynced", query, opts,
             lyricsBegin(World, Len(calls) + 1, "getSynced", query, opts))

\* the query getLyricsByMetadata builds from { title, artist, album }
MetadataQuery(metadata) ==
    IF Truthy(metadata.album)
    THEN <<<<S_track_name, metadata.title>>, <<S_artist_name, metadata.artist>>,
           <<S_album_name, metadata.album>>>>
    ELSE <<<<S_track_name, metadata.title>>, <<S_artist_name, metadata.artist>>>>

GetLyricsByMetadata(metadata, opts) ==
    /\ Len(calls) < MaxCalls
    /\ Start("getLyricsByMetadata", MetadataQuery(metadata), opts,
             byMetadataBegin(World, Len(calls) + 1, MetadataQuery(metadata), opts))

GetLyricsById(trackId, opts) ==
    /\ Len(calls) < MaxCalls
    /\ Start("getLyricsById", <<<<S_trackId, NumV(trackId)>>>>, opts,
             byIdBegin(World, <<<<S_trackId, NumV(trackId)>>>>, opts))

\* (history) with caching on, the calls that went to the provider and returned: what each
\* returned and when, by operation, query and options
Completed(c, r) ==
    IF options.enableCache /\ r.pc = "done" /\ Value(r.outcome).kind = "return"
    THEN [k \in (DOMAIN completed) \cup {<<c.op, c.query, c.opts>>} |->
             IF k = <<c.op, c.query, c.opts>>
             THEN [value |-> Value(r.outcome).value, at |-> now]
             ELSE completed[k]]
    ELSE completed

\* something settles in the withTimeout (id, stage): the promise fn() returned, or the timer;
\* r is where the call stands afterwards
Settle(id, stage, by, outcome, r) ==
    /\ Commit(r.w)
    /\ calls' = [calls EXCEPT ![id] =
                    [@ EXCEPT !.pc = r.pc, !.held = r.held, !.outcome = r.outcome]]
    /\ raceLog' = [raceLog EXCEPT ![id][stage] =
                      [settled |-> Append(@.settled, by),
                       delivered |-> IF Delivered(calls[id], stage)
                                     THEN Append(@.delivered, outcome)
                                     ELSE @.delivered]]
    /\ completed' = IF Delivered(calls[id], stage) THEN Completed(calls[id], r)
                    ELSE completed
    /\ last' = NoCall
    /\ UNCHANGED now /\ ClientConfigUnchanged

ProviderSettles(o, outcome) ==
    /\ o \in ops
    /\ Settle(o.id, o.stage, "operation", outcome,
              Race([World EXCEPT !.ops = @ \ {o}], o.id, calls[o.id], o.stage, outcome))

TimerFires(t) ==
    /\ t \in timers
    /\ now >= t.deadline
    /\ Settle(t.id, t.stage, "timer", TimerOutcome,
              Race([World EXCEPT !.timers = @ \ {t}], t.id, calls[t.id], t.stage,
                   TimerOutcome))

\* Client.clearCache()
ClearCache ==
    /\ cache' = CacheClear(cache)
    /\ completed' = [k \in {} |-> NULL]
    /\ last' = [op |-> "clearCache"]
    /\ UNCHANGED <<now, state, admitted, calls, ops, timers, raceLog, invoked, providerCalls>>
    /\ ClientConfigUnchanged

\* Client.getCacheStats()
GetCacheStats ==
    LET r == CacheClean(cache, now)
    IN  /\ cache' = r.cache
        /\ last' = [op |-> "getCacheStats",
                    ret |-> [size |-> CacheSize(r.cache), cleaned |-> r.cleaned],
                    sizeBefore |-> CacheSize(cache)]
        /\ UNCHANGED <<now, state, admitted, calls, ops, timers, raceLog, invoked,
                       providerCalls, completed>>
        /\ ClientConfigUnchanged

\* Client.getRateLimitStatus()
GetRateLimitStatus ==
    /\ last' = [op |-> "getRateLimitStatus", ret |-> getStatus(state, maxRequests, windowMs)]
    /\ UNCHANGED <<now, state, admitted, cache, calls, ops, timers, raceLog, invoked,
                   providerCalls, completed>>
    /\ ClientConfigUnchanged

\* Client.resetRateLimit()
ResetRateLimit ==
    /\ state' = NewRateLimitState(now)
    /\ admitted' = 0
    /\ invoked' = 0
    /\ last' = [op |-> "resetRateLimit"]
    /\ UNCHANGED <<now, cache, calls, ops, timers, raceLog, providerCalls, completed>>
    /\ ClientConfigUnchanged

ClientDeltas == {1, DefaultWindowMs}

\* the clock moves on by d ms
ClientAdvance(d) ==
    /\ now + d <= DefaultWindowMs + MaxClientMs
    /\ (now + d) % DefaultWindowMs <= MaxClientMs
    /\ now' = now + d
    /\ last' = NoCall
    /\ UNCHANGED <<state, admitted, cache, calls, ops, timers, raceLog, invoked,
                   providerCalls, completed>>
    /\ ClientConfigUnchanged

NextClient ==
    \/ \E query \in ClientQueries, opts \in SearchOptionSets : SearchSong(query, opts)
    \/ \E query \in ClientQueries : FindLyrics(query)
    \/ \E query \in ClientQueries, opts \in UnsyncedOptionSets : GetUnsynced(query, opts)
    \/ \E query \in ClientQueries, opts \in SyncedOptionSets : GetSynced(query, opts)
    \/ \E metadata \in TrackInfos, opts \in LyricsOptionSets :
          GetLyricsByMetadata(metadata, opts)
    \/ \E trackId \in TrackIds, opts \in ByIdOptionSets : GetLyricsById(trackId, opts)
    \/ \E o \in ops : \E outcome \in ProviderOutcomes(o.method) : ProviderSettles(o, outcome)
    \/ \E t \in timers : TimerFires(t)
    \/ \E d \in ClientDeltas : ClientAdvance(d)

\* the client's calls, under every configuration
Spec == InitClient /\ [][NextClient]_vars

\* one call, and the cache and limiter maintenance around it
NextMaintenance ==
    \/ calls = <<>> /\ \E query \in ClientQueries, opts \in SearchOptionSets :
                            SearchSong(query, opts)
    \/ calls = <<>> /\ \E query \in ClientQueries : FindLyrics(query)
    \/ calls = <<>> /\ \E query \in ClientQueries, opts \in UnsyncedOptionSets :
                            GetUnsynced(query, opts)
    \/ calls = <<>> /\ \E query \in ClientQueries, opts \in SyncedOptionSets :
                            GetSynced(query, opts)
    \/ calls = <<>> /\ \E metadata \in TrackInfos, opts \in LyricsOptionSets :
                            GetLyricsByMetadata(metadata, opts)
    \/ calls = <<>> /\ \E trackId \in TrackIds, opts \in ByIdOptionSets :
                            GetLyricsById(trackId, opts)
    \/ \E o \in ops : \E outcome \in ProviderOutcomes(o.method) : ProviderSettles(o, outcome)
    \/ \E t \in timers : TimerFires(t)
    \/ \E d \in ClientDeltas : ClientAdvance(d)
    \/ ClearCache
    \/ GetCacheStats
    \/ GetRateLimitStatus
    \/ ResetRateLimit

SpecMaintenance == InitClient /\ [][NextMaintenance]_vars

\* last instant (ms) of a run in which timers fire on time
MaxTimedMs == 3

\* the clock moves on by 1 ms once every timer that is due has fired: the event loop is
\* idle while calls await, so a setTimeout callback runs when its delay has passed
TimedAdvance ==
    /\ now < MaxTimedMs
    /\ \A t \in timers : t.deadline > now
    /\ now' = now + 1
    /\ last' = NoCall
    /\ UNCHANGED <<state, admitted, cache, calls, ops, timers, raceLog, invoked,
                   providerCalls, completed>>
    /\ ClientConfigUnchanged

NextTimed ==
    \/ \E query \in ClientQueries, opts \in SearchOptionSets : SearchSong(query, opts)
    \/ \E query \in ClientQueries : FindLyrics(query)
    \/ \E query \in ClientQueries, opts \in UnsyncedOptionSets : GetUnsynced(query, opts)
    \/ \E query \in ClientQueries, opts \in SyncedOptionSets : GetSynced(query, opts)
    \/ \E metadata \in TrackInfos, opts \in LyricsOptionSets :
          GetLyricsByMetadata(metadata, opts)
    \/ \E trackId \in TrackIds, opts \in ByIdOptionSets : GetLyricsById(trackId, opts)
    \/ \E o \in ops : \E outcome \in ProviderOutcomes(o.method) : ProviderSettles(o, outcome)
    \/ \E t \in timers : TimerFires(t)
    \/ TimedAdvance

\* the client's calls with a provider that answers at any time or never, and timers that
\* fire when they are due
SpecTimed == InitClient /\ [][NextTimed]_vars

----------------------------------------------------------------------------
(* RateLimiter.checkLimit *)

\* C2: once maxRequests checkLimit() calls have returned in the current window and the
\* window has not elapsed, a further checkLimit() throws RateLimitError and leaves the
\* request count as it was.
C2_FullWindowRejects ==
    (/\ last.op = "checkLimit"
     /\ last.preAdmitted = maxRequests
     /\ now - last.pre.windowStart < windowMs)
    => (/\ last.error = "RateLimitError"
        /\ state.requests = last.pre.requests
        /\ state.requests = maxRequests
        /\ admitted = last.preAdmitted)

C2_Witness ==
    /\ last.op = "checkLimit"
    /\ maxRequests = 2
    /\ last.preAdmitted = 2
    /\ last.pre.isLimited
    /\ now - last.pre.windowStart < windowMs
    /\ last.error = "RateLimitError"

\* C3: a checkLimit() called when now - windowStart >= windowMs starts a new window at
\* now and, for maxRequests >= 1, returns leaving requests = 1 and isLimited = false,
\* whatever was rejected in the window before (for maxRequests = 0 it is rejected in
\* the new window with requests = 0).
C3_ElapsedWindowResets ==
    (/\ last.op = "checkLimit"
     /\ now - last.pre.windowStart >= windowMs)
    => (/\ state.windowStart = now
        /\ maxRequests >= 1 =>
              /\ last.error = "none"
              /\ state = [requests |-> 1, windowStart |-> now, isLimited |-> FALSE]
        /\ maxRequests = 0 =>
              /\ last.error = "RateLimitError"
              /\ state.requests = 0)

C3_Witness ==
    /\ last.op = "checkLimit"
    /\ maxRequests = 2
    /\ now - last.pre.windowStart >= windowMs
    /\ last.pre.isLimited
    /\ last.pre.requests = 2
    /\ last.error = "none"
    /\ state.requests = 1

----------------------------------------------------------------------------
(* Cache.get / Cache.set *)

\* what the history of set/delete/clear calls says get(key) has to return at time t
Stored(key, t) ==
    IF shadow[key] # NULL /\ t - Value(shadow[key]).timestamp <= Value(shadow[key]).ttl
    THEN Some(Value(shadow[key]).data)
    ELSE NULL

\* C4: get(key) returns the value of the latest set(key, ...) not deleted or cleared
\* since, exactly when now - timestamp <= ttl for that set, and null otherwise; so no
\* value older than its ttl is returned, whatever set/get/delete/clear/clean calls and
\* clock advances came before.
C4_GetHitsIffFresh ==
    last.op = "get" => last.ret = Stored(last.key, now)

C4_Witness ==
    /\ last.op = "get"
    /\ last.ret # NULL
    /\ shadow[last.key] # NULL
    /\ Value(shadow[last.key]).ttl > 0
    /\ now - Value(shadow[last.key]).timestamp = Value(shadow[last.key]).ttl

\* C5: a get(k) that directly follows set(k, v, ttl) returns v; a get(k) on a stored
\* entry whose ttl has run out returns null and removes exactly that entry: size()
\* goes down by one and every other entry stays as it was.
C5_RoundTrip ==
    [][\A k \in Keys :
        /\ (last.op = "set" /\ last.key = k /\ last'.op = "get" /\ last'.key = k)
              => last'.ret = Some(last.value)
        /\ (/\ last'.op = "get" /\ last'.key = k
            /\ k \in DOMAIN cache
            /\ shadow[k] # NULL
            /\ now - Value(shadow[k]).timestamp > Value(shadow[k]).ttl)
              => (/\ last'.ret = NULL
                  /\ cache' = Remove(cache, k)
                  /\ CacheSize(cache') = CacheSize(cache) - 1
                  /\ \A j \in (DOMAIN cache) \ {k} :
                        j \in DOMAIN cache' /\ cache'[j] = cache[j])
      ]_vars

C5_Witness ==
    /\ last.op = "get"
    /\ last.ret = NULL
    /\ shadow[last.key] # NULL
    /\ now - Value(shadow[last.key]).timestamp > Value(shadow[last.key]).ttl
    /\ last.sizeBefore = 2
    /\ CacheSize(cache) = 1

----------------------------------------------------------------------------
(* Client: the cache in front of the provider *)

CachedOps == {"searchSong", "findLyrics", "getUnsynced", "getSynced"}

\* C1: with caching enabled, once one of searchSong, findLyrics, getUnsynced, getSynced
\* has fetched and returned a result for a query and options, a call of the same
\* operation with the same query and options made no later than cacheTTL ms after that
\* ends at once with an equal result, starts no provider operation and leaves the rate
\* limiter as it was.
C1_CacheHitShortCircuits ==
    [][(Len(calls') = Len(calls) + 1 /\ options.enableCache) =>
          LET c == calls'[Len(calls')]
              k == <<c.op, c.query, c.opts>>
          IN  (/\ c.op \in CachedOps
               /\ k \in DOMAIN completed
               /\ now - completed[k].at <= options.cacheTTL)
              => /\ c.pc = "done"
                 /\ c.outcome = Some(Ok(completed[k].value))
                 /\ providerCalls' = providerCalls
                 /\ ops' = ops
                 /\ state' = state
                 /\ admitted' = admitted]_vars

\* two identical searches, the second made at the last moment the entry is fresh, have
\* both returned the same result and the provider was invoked once
C1_Witness ==
    /\ options.enableCache
    /\ options.enableRateLimit
    /\ Len(calls) = 2
    /\ calls[1].op = "searchSong"
    /\ calls[2].op = "searchSong"
    /\ calls[2].query = calls[1].query
    /\ calls[1].pc = "done"
    /\ calls[2].pc = "done"
    /\ Value(calls[1].outcome).kind = "return"
    /\ calls[2].outcome = calls[1].outcome
    /\ <<"searchSong", calls[1].query, calls[1].opts>> \in DOMAIN completed
    /\ now - completed[<<"searchSong", calls[1].query, calls[1].opts>>].at = options.cacheTTL
    /\ raceLog[2][1].settled = <<>>
    /\ providerCalls = 1
    /\ state.requests = 1

----------------------------------------------------------------------------
(* Client.withTimeout *)

\* the outcome is one the provider produces: a value, null, or the provider's failure
FromProvider(outcome) == outcome.kind = "reject" => outcome.name = "ProviderError"

\* the call's error came from this class of error
FailedFrom(c, origin) ==
    /\ c.pc = "done"
    /\ Value(c.outcome).kind = "throw"
    /\ Value(c.outcome).origin = origin

\* C6: a withTimeout in which something has settled has delivered exactly one outcome to
\* the call awaiting it: the operation's own outcome if the operation settled first,
\* and a TimeoutError, with which the call has failed, if the timer fired first.
C6_ExactlyOneOutcome ==
    \A id \in DOMAIN raceLog : \A stage \in 1..2 :
        LET race == raceLog[id][stage]
        IN  race.settled # <<>> =>
              /\ Len(race.delivered) = 1
              /\ race.settled[1] = "operation" => FromProvider(race.delivered[1])
              /\ race.settled[1] = "timer" =>
                    /\ race.delivered[1] = Reject("TimeoutError")
                    /\ FailedFrom(calls[id], "TimeoutError")

\* one call's timer fired first, another call's operation settled first with a value
C6_Witness ==
    /\ Len(calls) = 2
    /\ raceLog[1][1].settled = <<"timer">>
    /\ raceLog[1][1].delivered = <<Reject("TimeoutError")>>
    /\ raceLog[2][1].settled = <<"operation">>
    /\ raceLog[2][1].delivered = <<Resolve(Some(ProviderMetadata))>>
    /\ calls[2].pc = "done"
    /\ Value(calls[2].outcome).kind = "return"

\* C7: whatever settles in a withTimeout after its race is decided, the operation
\* after a timeout or the timer after the operation, changes neither the call's outcome
\* nor the cache, the limiter or what was fetched.
C7_LoserHasNoEffect ==
    [][\A id \in DOMAIN raceLog : \A stage \in 1..2 :
          (/\ raceLog[id][stage].settled # <<>>
           /\ raceLog'[id][stage].settled # raceLog[id][stage].settled)
          => /\ calls' = calls
             /\ cache' = cache
             /\ completed' = completed
             /\ state' = state
             /\ providerCalls' = providerCalls]_vars

\* with caching on, a search timed out and its operation then completed; another
\* search's operation won and its timer then fired: only the second is in the cache
C7_Witness ==
    /\ options.enableCache
    /\ Len(calls) = 2
    /\ calls[1].op = "searchSong"
    /\ calls[2].op = "findLyrics"
    /\ raceLog[1][1].settled = <<"timer", "operation">>
    /\ FailedFrom(calls[1], "TimeoutError")
    /\ raceLog[2][1].settled = <<"operation", "timer">>
    /\ Value(calls[2].outcome).kind = "return"
    /\ DOMAIN completed = {<<"findLyrics", calls[2].query, calls[2].opts>>}
    /\ CacheSize(cache) = 1

----------------------------------------------------------------------------
(* Client: what a failing call throws *)

ErrorKinds == {"RateLimitError", "TimeoutError", "ValidationError", "NotFoundError"}

\* C8: a call that fails because of a RateLimitError, a TimeoutError, a ValidationError
\* or a NotFoundError throws an error of that class.
C8_ErrorsKeepTheirKind ==
    \A id \in DOMAIN calls :
        (/\ calls[id].pc = "done"
         /\ Value(calls[id].outcome).kind = "throw"
         /\ Value(calls[id].outcome).origin \in ErrorKinds)
        => Value(calls[id].outcome).name = Value(calls[id].outcome).origin

\* C9: when a provider operation of searchSong, findLyrics, getUnsynced or getSynced
\* resolves with null, the call fails with NotFoundError.
C9_AbsenceIsNotFound ==
    \A id \in DOMAIN calls : \A stage \in 1..2 :
        (/\ calls[id].op \in CachedOps
         /\ raceLog[id][stage].delivered = <<Resolve(NULL)>>)
        => /\ calls[id].pc = "done"
           /\ calls[id].outcome = Some(Throw("NotFoundError", "NotFoundError"))

----------------------------------------------------------------------------
(* Client: the rate limiter in front of the provider *)

\* C10: with rate limiting enabled, the provider operations started within the
\* limiter's current window never number more than maxRequestsPerMinute.
C10_InvocationsWithinLimit == options.enableRateLimit => invoked <= maxRequests

----------------------------------------------------------------------------
(* Client: validation before everything else *)

\* the value is a string of nothing but whitespace
Blank(val) == IsString(val) /\ \A i \in 1..Len(val.v) : IsSpace(val.v[i])

MissingOrBlank(query, name) == ~Has(query, name) \/ Blank(Get(query, name))

\* C11: a call of searchSong, findLyrics, getUnsynced or getSynced whose query has a
\* missing or blank track or artist name ends at once with ValidationError, and leaves
\* the cache, the limiter and the provider operations started as they were.
C11_ValidationFirst ==
    [][Len(calls') = Len(calls) + 1 =>
          LET c == calls'[Len(calls')]
          IN  (/\ c.op \in CachedOps
               /\ \/ MissingOrBlank(c.query, S_track_name)
                  \/ MissingOrBlank(c.query, S_artist_name))
              => /\ c.pc = "done"
                 /\ c.outcome = Some(Throw("ValidationError", "ValidationError"))
                 /\ cache' = cache
                 /\ state' = state
                 /\ admitted' = admitted
                 /\ ops' = ops
                 /\ timers' = timers
                 /\ providerCalls' = providerCalls]_vars

\* after a search that filled the cache and used the limiter's one request, a
\* getUnsynced with a blank track name has failed with ValidationError
C11_Witness ==
    /\ options.enableCache
    /\ options.enableRateLimit
    /\ Len(calls) = 2
    /\ calls[1].op = "searchSong"
    /\ calls[1].pc = "done"
    /\ Value(calls[1].outcome).kind = "return"
    /\ calls[2].op = "getUnsynced"
    /\ Blank(Get(calls[2].query, S_track_name))
    /\ calls[2].outcome = Some(Throw("ValidationError", "ValidationError"))
    /\ CacheSize(cache) = 1
    /\ state.requests = 1
    /\ providerCalls = 1

----------------------------------------------------------------------------
(* Cache.generateKey *)

\* a === b, for the values of parameters
SameValue(a, b) == a.t = b.t /\ (a.t = "undefined" \/ a.v = b.v)
SamePair(x, y) == x[1] = y[1] /\ SameValue(x[2], y[2])
\* the same pairs, inserted in the same order
SameParams(p, q) == Len(p) = Len(q) /\ \A i \in 1..Len(p) : SamePair(p[i], q[i])
\* the same set of pairs, in whatever order they were inserted
SamePairs(p, q) == Len(p) = Len(q) /\ \A i \in 1..Len(p) : \E j \in 1..Len(q) : SamePair(p[i], q[j])

\* C12: generateKey called with two different prefixes and the same parameter map never
\* yields the same key; and two keys made with different prefixes of the client's six
\* operation kinds differ whatever their parameters, so an entry stored for one kind is
\* never the entry looked up for another.
C12_PrefixesSeparateKeys ==
    \A i, j \in 1..Len(keyed) :
        (/\ keyed[i].prefix # keyed[j].prefix
         /\ \/ SameParams(keyed[i].query, keyed[j].query)
            \/ {keyed[i].prefix, keyed[j].prefix} \subseteq ClientPrefixes)
        => keyed[i].key # keyed[j].key

C12_Witness ==
    /\ Len(keyed) = 2
    /\ keyed[1].prefix = S_synced /\ keyed[2].prefix = S_unsynced
    /\ SameParams(keyed[1].query, keyed[2].query) /\ Len(keyed[1].query) = 2
    /\ keyed[1].key # keyed[2].key

\* C13: generateKey(prefix, params) yields the same key for every insertion order of the
\* same set of parameter name/value pairs.
C13_InsertionOrderIrrelevant ==
    \A i, j \in 1..Len(keyed) :
        (keyed[i].prefix = keyed[j].prefix /\ SamePairs(keyed[i].query, keyed[j].query))
        => keyed[i].key = keyed[j].key

C13_Witness ==
    /\ Len(keyed) = 2
    /\ ~SameParams(keyed[1].query, keyed[2].query)
    /\ SamePairs(keyed[1].query, keyed[2].query)
    /\ keyed[1].prefix = keyed[2].prefix
    /\ keyed[1].key = keyed[2].key

----------------------------------------------------------------------------
(* Client: the enableCache and enableRateLimit toggles *)

\* C14: with enableCache = false the cache stays empty and a call that is made either
\* fails at once (validation, rate limit, or getLyricsById's NotFoundError) or starts a
\* provider operation, never returning a stored result; with enableRateLimit = false no
\* step changes the limiter's state and no call fails because of a RateLimitError; each
\* holds whatever the other toggle is.
C14_DisabledStageSkipped ==
    [][/\ ~options.enableCache =>
            /\ cache = <<>>
            /\ cache' = <<>>
            /\ Len(calls') = Len(calls) + 1 =>
                  LET c == calls'[Len(calls')]
                  IN  IF c.pc = "done"
                      THEN /\ Value(c.outcome).kind = "throw"
                           /\ Value(c.outcome).origin \in
                                 {"ValidationError", "RateLimitError", "NotFoundError"}
                           /\ providerCalls' = providerCalls
                      ELSE providerCalls' = providerCalls + 1
       /\ ~options.enableRateLimit =>
            /\ state' = state
            /\ \A i \in 1..Len(calls') : ~FailedFrom(calls'[i], "RateLimitError")]_vars

\* with both stages disabled, two identical searches made in the same millisecond have
\* both been answered by the provider, under a limit of one request per minute
C14_Witness ==
    /\ ~options.enableCache
    /\ ~options.enableRateLimit
    /\ now = 0
    /\ Len(calls) = 2
    /\ calls[1].op = "searchSong"
    /\ calls[2].op = "searchSong"
    /\ calls[2].query = calls[1].query
    /\ calls[1].pc = "done"
    /\ calls[2].pc = "done"
    /\ Value(calls[1].outcome).kind = "return"
    /\ Value(calls[2].outcome).kind = "return"
    /\ providerCalls = 2
    /\ cache = <<>>
    /\ state = NewRateLimitState(0)

----------------------------------------------------------------------------
(* RateLimiter.getStatus / RateLimiter.reset *)

\* C15: getStatus() leaves requests, windowStart and isLimited as they were and reports
\* them as they are, with resetTime = windowStart + windowMs: once the window has elapsed
\* it still reports the old count and flag and a resetTime that is not in the future.
\* Only checkLimit() or reset() starts a new window.
C15_GetStatusReadsOnly ==
    [][/\ last'.op = "getStatus" =>
            /\ state' = state
            /\ last'.ret = [requests |-> state.requests, maxRequests |-> maxRequests,
                            resetTime |-> state.windowStart + windowMs,
                            isLimited |-> state.isLimited]
            /\ now - state.windowStart >= windowMs => last'.ret.resetTime <= now
       /\ state' # state => last'.op \in {"checkLimit", "reset"}]_vars

\* getStatus called after the window of a limiter has elapsed reports the two requests
\* and the rejection of that window
C15_Witness ==
    /\ last.op = "getStatus"
    /\ now - state.windowStart > windowMs
    /\ last.ret.requests = 2
    /\ last.ret.isLimited
    /\ last.ret.resetTime < now
    /\ state = [requests |-> 2, windowStart |-> 0, isLimited |-> TRUE]

\* C16: reset() leaves requests = 0, isLimited = false and windowStart = now, whatever the
\* state before; and a checkLimit() made when fewer than maxRequests calls have returned
\* since the window started (at reset, at construction or at a checkLimit after the
\* window elapsed) returns, so the maxRequests calls that follow a reset within windowMs
\* all succeed.
C16_ResetStartsAfresh ==
    [][/\ last'.op = "reset" =>
            state' = [requests |-> 0, windowStart |-> now, isLimited |-> FALSE]
       /\ (last'.op = "checkLimit" /\ admitted < maxRequests) =>
            /\ last'.error = "none"
            /\ state'.requests = admitted' /\ admitted' <= maxRequests]_vars

\* a limiter reset at 1 ms, in its first window, has since let maxRequests = 2 calls through
C16_Witness ==
    /\ maxRequests = 2
    /\ now = 1
    /\ state = [requests |-> 2, windowStart |-> 1, isLimited |-> FALSE]
    /\ last.op = "checkLimit"
    /\ last.error = "none"
    /\ admitted = 2

----------------------------------------------------------------------------
(* Cache.set on a stored key, Cache.delete, Cache.clean *)

\* C17: set(key, value, ttl) on a key that holds an entry, expired or not, leaves under
\* key the new value with timestamp = now and the given ttl (defaultTTL when none is
\* given), leaves size() and every other entry as they were, and a get(key) made d ms
\* later returns the new value exactly when d <= that ttl.
C17_SetOverwrites ==
    [][\A k \in Keys :
        (last'.op = "set" /\ last'.key = k /\ k \in DOMAIN cache) =>
            /\ k \in DOMAIN cache'
            /\ cache'[k].data = last'.value
            /\ cache'[k].timestamp = now
            /\ cache'[k].ttl = (IF last'.ttl = NULL THEN defaultTTL ELSE Value(last'.ttl))
            /\ CacheSize(cache') = CacheSize(cache)
            /\ \A j \in (DOMAIN cache) \ {k} : j \in DOMAIN cache' /\ cache'[j] = cache[j]
            /\ \A d \in 0..MaxCacheTime :
                  CacheGet(cache', k, now + d).value =
                      (IF d <= cache'[k].ttl THEN Some(last'.value) ELSE NULL)
      ]_vars

\* a set without ttl has replaced an expired entry that held another value, beside a
\* second entry
C17_Witness ==
    /\ last.op = "set"
    /\ last.ttl = NULL
    /\ defaultTTL > 0
    /\ last.before # NULL
    /\ Expired(Value(last.before), now)
    /\ Value(last.before).data # last.value
    /\ cache[last.key] = [data |-> last.value, timestamp |-> now, ttl |-> defaultTTL]
    /\ CacheSize(cache) = 2

\* C18: delete(key) returns true iff the map holds an entry under key, expired or not;
\* it removes that entry and no other, and a get(key) made right after returns null.
C18_DeleteRemovesOne ==
    [][\A k \in Keys :
        (last'.op = "delete" /\ last'.key = k) =>
            /\ last'.ret = (k \in DOMAIN cache)
            /\ DOMAIN cache' = (DOMAIN cache) \ {k}
            /\ \A j \in DOMAIN cache' : cache'[j] = cache[j]
            /\ CacheGet(cache', k, now).value = NULL
      ]_vars

\* delete has returned true for an entry that had expired but was still stored, and the
\* other entry is still there
C18_Witness ==
    /\ last.op = "delete"
    /\ last.ret = TRUE
    /\ last.before # NULL
    /\ Expired(Value(last.before), now)
    /\ CacheSize(cache) = 1

\* C19: clean() removes exactly the entries with now - timestamp > ttl, leaves the others
\* as they were and returns the number removed; right after it no stored entry is expired.
C19_CleanRemovesExpired ==
    [][last'.op = "clean" =>
            /\ DOMAIN cache' = {k \in DOMAIN cache : ~(now - cache[k].timestamp > cache[k].ttl)}
            /\ \A k \in DOMAIN cache' : cache'[k] = cache[k]
            /\ last'.ret = CacheSize(cache) - CacheSize(cache')
            /\ \A k \in DOMAIN cache' : now - cache'[k].timestamp <= cache'[k].ttl
      ]_vars

\* clean has removed one entry and kept one whose age is exactly its ttl
C19_Witness ==
    /\ last.op = "clean"
    /\ last.ret = 1
    /\ CacheSize(cache) = 1
    /\ \E k \in DOMAIN cache : cache[k].ttl > 0 /\ now - cache[k].timestamp = cache[k].ttl

----------------------------------------------------------------------------
(* Cache: what a caller can do to a stored value *)

\* C20: a write a caller makes to a value that get returned leaves what get(k) returns,
\* read through the reference, as it was for every key k.
C20_ValuesNotShared ==
    [][last'.op = "write" =>
          \A k \in Keys :
              Deref(heap', CacheGet(cache', k, now').value)
                  = Deref(heap, CacheGet(cache, k, now).value)]_vars

----------------------------------------------------------------------------
(* Client.getLyricsById *)

----------------------------------------------------------------------------
(* Client: how long a call can take *)

\* C22: a call that awaits has a withTimeout timer of its own pending (so every provider
\* operation it awaits is raced against requestTimeout), and with timers firing when due
\* no call is still unsettled later than 2 x requestTimeout after it was made, whether
\* or not the provider ever answers.
C22_SettlesWithinTwoTimeouts ==
    \A i \in 1..Len(calls) :
        calls[i].pc # "done" =>
            /\ \E t \in timers :
                  /\ t.id = i
                  /\ calls[i].pc = AwaitPc(t.stage)
                  /\ t.deadline <= calls[i].at + 2 * options.requestTimeout
            /\ now <= calls[i].at + 2 * options.requestTimeout

\* a getUnsynced call with includeMetadata, made at 0, got its lyrics at the deadline of
\* its first provider operation and still awaits the second at 2 x requestTimeout, with
\* that operation unanswered and its timer due
C22_Witness ==
    /\ Len(calls) >= 1
    /\ calls[1].op = "getUnsynced"
    /\ calls[1].at = 0
    /\ calls[1].pc = "await2"
    /\ now = 2 * options.requestTimeout
    /\ options.requestTimeout > 0
    /\ \E o \in ops : o.id = 1 /\ o.stage = 2
    /\ \E t \in timers : t.id = 1 /\ t.stage = 2 /\ t.deadline = now

----------------------------------------------------------------------------
(* utils: retry(fn, maxRetries, baseDelay), around a call fn that may fail in any way *)

\* largest maxRetries given to retry
MaxRetries == 2
\* baseDelay (ms) given to retry
RetryBaseDelay == 1
\* last instant (ms) of a run of retry
MaxRetryMs == 4

\* how one invocation of fn can settle: a value, or one of the pipeline's failures
FnOutcomes ==
    {Resolve("v1"), Reject("ValidationError"), Reject("RateLimitError"),
     Reject("TimeoutError")}

\* fn(): the invocation is counted and awaited
retryInvoke(r) == [r EXCEPT !.pc = "calling", !.invocations = @ + 1]

\* retry that waits baseDelay before every re-attempt
retryCatch_fixedDelay(r, name, t) ==
    IF r.i = r.maxRetries
    THEN [r EXCEPT !.pc = "done", !.lastError = Some(name),
                   !.outcome = Some(Throw(name, name))]
    ELSE [r EXCEPT !.pc = "sleeping", !.lastError = Some(name),
                   !.wakeAt = t + r.baseDelay]

\* catch (error) { lastError = error; if (i === maxRetries) throw lastError; ... setTimeout }
retryCatch(r, name, t) ==
    IF r.i = r.maxRetries
    THEN [r EXCEPT !.pc = "done", !.lastError = Some(name),
                   !.outcome = Some(Throw(name, name))]
    ELSE [r EXCEPT !.pc = "sleeping", !.lastError = Some(name),
                   !.wakeAt = t + r.baseDelay * (2 ^ r.i)]

\* return await fn()
retrySettled(r, outcome, t) ==
    IF outcome.kind = "resolve"
    THEN [r EXCEPT !.pc = "done", !.outcome = Some(Ok(outcome.value))]
    ELSE retryCatch(r, outcome.name, t)

InitRetry ==
    /\ now = 0
    /\ maxRequests = 0
    /\ windowMs = DefaultWindowMs
    /\ state = NewRateLimitState(0)
    /\ admitted = 0
    /\ cache = [k \in {} |-> NULL]
    /\ defaultTTL = 0
    /\ shadow = [k \in Keys |-> NULL]
    /\ last = NoCall
    /\ NoClient

RetryFrame ==
    UNCHANGED <<limiterVars, cacheVars, last, options, calls, ops, timers, raceLog, invoked,
                providerCalls, completed, keyed, heap, returnedAt, twin, debounced>>

\* retry(fn, maxRetries, baseDelay) is called and runs to its first await
CallRetry(maxRetries, baseDelay) ==
    /\ retryRun.pc = "idle"
    /\ retryRun' = retryInvoke([pc |-> "idle", i |-> 0, maxRetries |-> maxRetries,
                                baseDelay |-> baseDelay, lastError |-> NULL,
                                outcome |-> NULL, wakeAt |-> 0, invocations |-> 0,
                                results |-> <<>>, invokedAt |-> <<now>>,
                                settledAt |-> <<>>])
    /\ UNCHANGED now /\ RetryFrame

\* the promise fn() returned settles
FnSettles(outcome) ==
    /\ retryRun.pc = "calling"
    /\ retryRun' = retrySettled([retryRun EXCEPT !.results = Append(@, outcome),
                                                 !.settledAt = Append(@, now)],
                                outcome, now)
    /\ UNCHANGED now /\ RetryFrame

\* the backoff timer fires: i++ and, as i <= maxRetries, fn() again
RetryWakes ==
    /\ retryRun.pc = "sleeping"
    /\ now >= retryRun.wakeAt
    /\ retryRun' = retryInvoke([retryRun EXCEPT !.i = @ + 1, !.invokedAt = Append(@, now)])
    /\ UNCHANGED now /\ RetryFrame

\* the clock moves on by 1 ms
RetryTick ==
    /\ now < MaxRetryMs
    /\ now' = now + 1
    /\ UNCHANGED retryRun /\ RetryFrame

NextRetry ==
    \/ \E maxRetries \in 0..MaxRetries : CallRetry(maxRetries, RetryBaseDelay)
    \/ \E outcome \in FnOutcomes : FnSettles(outcome)
    \/ RetryWakes
    \/ RetryTick

SpecRetry == InitRetry /\ [][NextRetry]_vars

\* C23: an invocation of the wrapped call that fails with ValidationError is the last one:
\* retry has ended with that failure and invokes the call no more.
C23_ValidationNotRetried ==
    (/\ retryRun.pc # "idle"
     /\ \E k \in 1..Len(retryRun.results) :
           /\ retryRun.results[k].kind = "reject"
           /\ retryRun.results[k].name = "ValidationError")
    => /\ retryRun.pc = "done"
       /\ retryRun.outcome = Some(Throw("ValidationError", "ValidationError"))
       /\ retryRun.invocations = 1

----------------------------------------------------------------------------
(* utils: the pure functions, each called on its own *)

\* what a caller may put in a field of Partial<LyricsQuery>, typed or not: undefined, '',
\* ' ', 'A', ' A ', 5, 0, true
FieldValues ==
    <<UndefV, StrV(<<>>), StrV(<<" ">>), StrV(<<"A">>), StrV(<<" ", "A", " ">>),
      NumV(5), NumV(0), BoolV(TRUE)>>

\* the object with the given fields; index 0 leaves the field out
Field(name, k) == IF k = 0 THEN <<>> ELSE <<<<name, FieldValues[k]>>>>
PartialQuery(t, a, al) ==
    Field(S_track_name, t) \o Field(S_artist_name, a) \o Field(S_album_name, al)

InitUtils ==
    /\ now = 0
    /\ maxRequests = 0
    /\ windowMs = DefaultWindowMs
    /\ state = NewRateLimitState(0)
    /\ admitted = 0
    /\ cache = [k \in {} |-> NULL]
    /\ defaultTTL = 0
    /\ shadow = [k \in Keys |-> NULL]
    /\ last = NoCall
    /\ NoClient

CallValidateQuery(query) ==
    /\ last = NoCall
    /\ last' = [op |-> "validateQuery", query |-> query, ret |-> validateQuery(query)]
    /\ UNCHANGED <<now, limiterVars, cacheVars, clientVars>>

\* largest number of lines in the lyrics given to formatLyrics
MaxLines == 2

\* lyrics lines: one without start time, one at 0 ms, one at 1 min 1.23 s
LyricsLines ==
    {[text |-> <<"a">>], [text |-> <<"a">>, startTime |-> 0],
     [text |-> <<"b">>, startTime |-> 61230]}
LyricsInputs == UNION {[1..n -> LyricsLines] : n \in 0..MaxLines}
\* format: LyricsFormat, or left out
FormatArgs == {NULL, Some(S_plain), Some(S_lrc), Some(S_json)}

CallFormatLyrics(lyrics, format) ==
    /\ last = NoCall
    /\ last' = [op |-> "formatLyrics", lyrics |-> lyrics, format |-> format,
                ret |-> formatLyrics(lyrics, format, NULL)]
    /\ UNCHANGED <<now, limiterVars, cacheVars, clientVars>>

\* largest number of results given to sortSearchResults
MaxResults == 3

\* the scores of the results, and the results: their metadata tells them apart and is
\* their position in the input
Scores == {Frac(3, 10), Frac(1, 2), Frac(4, 5)}
ResultInputs ==
    {[i \in 1..Len(ss) |-> [metadata |-> i, score |-> ss[i]]] :
        ss \in UNION {[1..n -> Scores] : n \in 0..MaxResults}}

CallSortSearchResults(results) ==
    /\ last = NoCall
    /\ last' = [op |-> "sortSearchResults", results |-> results,
                ret |-> sortSearchResults(results)]
    /\ UNCHANGED <<now, limiterVars, cacheVars, clientVars>>

\* longest string given to calculateSimilarity, and the characters of those strings
MaxSimLen == 3
SimChars == {"a", "A", "b", " "}
SimStrings == UNION {[1..n -> SimChars] : n \in 0..MaxSimLen}

\* the caller computes the similarity both ways round
CallCalculateSimilarity(str1, str2) ==
    /\ last = NoCall
    /\ last' = [op |-> "calculateSimilarity", str1 |-> str1, str2 |-> str2,
                ret |-> calculateSimilarity(str1, str2),
                swapped |-> calculateSimilarity(str2, str1)]
    /\ UNCHANGED <<now, limiterVars, cacheVars, clientVars>>

NextUtils ==
    \/ \E str1, str2 \in SimStrings : CallCalculateSimilarity(str1, str2)
    \/ \E results \in ResultInputs : CallSortSearchResults(results)
    \/ \E t, a, al \in 0..Len(FieldValues) : CallValidateQuery(PartialQuery(t, a, al))
    \/ \E lyrics \in LyricsInputs, format \in FormatArgs : CallFormatLyrics(lyrics, format)

SpecUtils == InitUtils /\ [][NextUtils]_vars

\* the field is absent, not a string, empty or blank
Unusable(query, name) ==
    \/ ~Has(query, name)
    \/ ~IsString(Get(query, name))
    \/ \A i \in 1..Len(Get(query, name).v) : IsSpace(Get(query, name).v[i])

\* C24: validateQuery throws ValidationError when the track name or the artist name is
\* absent, not a string, empty or blank; when it returns, both are strings that are not
\* blank and the result holds them trimmed.
C24_NamesRequired ==
    last.op = "validateQuery" =>
        /\ (Unusable(last.query, S_track_name) \/ Unusable(last.query, S_artist_name))
              => last.ret = Throw("ValidationError", "ValidationError")
        /\ last.ret.kind = "return" =>
              /\ ~Unusable(last.query, S_track_name)
              /\ ~Unusable(last.query, S_artist_name)
              /\ Get(last.ret.value, S_track_name) = StrV(trim(Get(last.query, S_track_name).v))
              /\ Get(last.ret.value, S_artist_name) = StrV(trim(Get(last.query, S_artist_name).v))

\* a query whose track name is fine and whose artist name is the number 5 was rejected
C24_Witness ==
    /\ last.op = "validateQuery"
    /\ ~Unusable(last.query, S_track_name)
    /\ Has(last.query, S_artist_name)
    /\ Get(last.query, S_artist_name).t = "number"
    /\ Truthy(Get(last.query, S_artist_name))
    /\ last.ret = Throw("ValidationError", "ValidationError")

\* C25: validateQuery throws ValidationError whenever the query has an album name that is a
\* string trimming to empty, the empty string included; and a query without album name
\* that it accepts yields a result without an album_name field.
C25_AlbumChecked ==
    last.op = "validateQuery" =>
        /\ (/\ Has(last.query, S_album_name)
            /\ IsString(Get(last.query, S_album_name))
            /\ Unusable(last.query, S_album_name))
              => last.ret = Throw("ValidationError", "ValidationError")
        /\ (~Has(last.query, S_album_name) /\ last.ret.kind = "return")
              => ~Has(last.ret.value, S_album_name)

\* C26: formatLyrics with format 'lrc' throws ValidationError when some line has no start
\* time, and otherwise (the empty sequence included) returns format 'lrc' with one
\* '[MM:SS.CC]text' line per input line, in input order.
C26_LrcNeedsStartTimes ==
    (last.op = "formatLyrics" /\ last.format = Some(S_lrc)) =>
        IF \E i \in 1..Len(last.lyrics) : ~HasStartTime(last.lyrics[i])
        THEN last.ret = Throw("ValidationError", "ValidationError")
        ELSE /\ last.ret.kind = "return"
             /\ last.ret.value.format = S_lrc
             /\ last.ret.value.content =
                   Join([i \in 1..Len(last.lyrics) |-> LrcLine(last.lyrics[i])], <<"\n">>)

\* C27: sortSearchResults returns its input's elements, each once, in an order in which
\* no result has a lower score than a later one and results of equal score stand as they
\* stood in the input.
C27_SortStableDescending ==
    last.op = "sortSearchResults" =>
        /\ Len(last.ret) = Len(last.results)
        /\ \A i \in 1..Len(last.results) :
              \E j \in 1..Len(last.ret) : last.ret[j] = last.results[i]
        /\ \A i, j \in 1..Len(last.ret) :
              i < j => /\ ~FLess(last.ret[i].score, last.ret[j].score)
                       /\ last.ret[i].score = last.ret[j].score
                             => last.ret[i].metadata < last.ret[j].metadata

\* three results, the last two of equal score higher than the first's, were sorted
C27_Witness ==
    /\ last.op = "sortSearchResults"
    /\ Len(last.results) = 3
    /\ FLess(last.results[1].score, last.results[2].score)
    /\ last.results[2].score = last.results[3].score
    /\ last.ret = <<last.results[2], last.results[3], last.results[1]>>

\* C28: calculateSimilarity(a, b) equals calculateSimilarity(b, a), is at least 0 and at
\* most 1, and is 1 when a and b are equal after lower-casing and trimming, both empty
\* included.
C28_SimilaritySymmetricBounded ==
    last.op = "calculateSimilarity" =>
        /\ last.ret = last.swapped
        /\ ~FLess(last.ret, Frac(0, 1))
        /\ ~FLess(Frac(1, 1), last.ret)
        /\ trim(toLowerCase(last.str1)) = trim(toLowerCase(last.str2)) => last.ret = Frac(1, 1)

\* two different strings that are equal once lower-cased and trimmed scored 1
C28_Witness ==
    /\ last.op = "calculateSimilarity"
    /\ last.str1 # last.str2
    /\ Len(last.str1) # Len(last.str2)
    /\ trim(toLowerCase(last.str1)) = <<"a", "b">>
    /\ trim(toLowerCase(last.str2)) = <<"a", "b">>
    /\ last.ret = Frac(1, 1)

\* C29: a checkLimit() that throws leaves isLimited true and reports
\* ceil(((windowStart + windowMs) - now) / 1000) seconds, which is at least 1 and at most
\* ceil(windowMs / 1000), a rejection happening only while now - windowStart < windowMs.
C29_RejectionWait ==
    (last.op = "checkLimit" /\ last.error = "RateLimitError") =>
        LET waitTime == (state.windowStart + windowMs) - now
        IN  /\ state.isLimited
            /\ now - state.windowStart < windowMs
            /\ 1000 * last.waitSeconds >= waitTime
            /\ 1000 * (last.waitSeconds - 1) < waitTime
            /\ last.waitSeconds >= 1
            /\ 1000 * (last.waitSeconds - 1) < windowMs

\* a full window rejected a call in its last millisecond: one second to wait
C29_Witness ==
    /\ last.op = "checkLimit" /\ last.error = "RateLimitError"
    /\ maxRequests > 0 /\ state.requests = maxRequests
    /\ ~last.pre.isLimited /\ state.isLimited
    /\ (state.windowStart + windowMs) - now = 1
    /\ last.waitSeconds = 1

----------------------------------------------------------------------------
(* A limiter on which reset() is never called, the instants of its admissions kept *)

CallCheckLimitTimed ==
    LET r == checkLimit(state, maxRequests, windowMs, now)
    IN  /\ state' = r.state
        /\ admitted' = Admitted(admitted, state, r)
        /\ returnedAt' = IF r.error = "none" THEN Append(returnedAt, now) ELSE returnedAt
        /\ last' = [op |-> "checkLimit", error |-> r.error, waitSeconds |-> r.waitSeconds,
                    pre |-> state, preAdmitted |-> admitted]
        /\ UNCHANGED <<now, cacheVars, options, calls, ops, timers, raceLog, invoked,
                       providerCalls, completed, keyed, heap, retryRun, twin, debounced>>
        /\ LimiterConfigUnchanged

NextUnreset ==
    \/ CallCheckLimitTimed
    \/ CallGetStatus
    \/ \E d \in LimiterDeltas : LimiterAdvance(d)

SpecUnreset == InitLimiter /\ [][NextUnreset]_vars

\* C30: with no reset(), any time interval shorter than windowMs holds at most
\* 2 x maxRequests checkLimit() calls that returned.
C30_AtMostTwicePerInterval ==
    \A i, j \in 1..Len(returnedAt) :
        (i <= j /\ returnedAt[j] - returnedAt[i] < windowMs) => j - i + 1 <= 2 * maxRequests

\* a burst across a window boundary: maxRequests = 2 calls returned in the last
\* millisecond of one window and 2 more in the first of the next
C30_Witness ==
    /\ maxRequests = 2
    /\ \E i \in 1..Len(returnedAt) :
          /\ i + 3 <= Len(returnedAt)
          /\ returnedAt[i] = DefaultWindowMs - 1
          /\ returnedAt[i + 1] = DefaultWindowMs - 1
          /\ returnedAt[i + 2] = DefaultWindowMs
          /\ returnedAt[i + 3] = DefaultWindowMs
          /\ returnedAt[i + 3] - returnedAt[i] < windowMs

----------------------------------------------------------------------------
(* Client: concurrent calls on one limiter *)

\* C31: however the steps of concurrent client calls interleave, each call's
\* checkLimit() tests and increments the count in one step, so the count is always
\* between 0 and maxRequests (and is the number of calls let through in the window),
\* and isLimited holds only when the count is maxRequests.
C31_CountWithinLimit ==
    /\ 0 <= state.requests /\ state.requests <= maxRequests
    /\ state.requests = admitted
    /\ state.isLimited => state.requests = maxRequests

\* a second call was rejected by the limiter while the first, let through, still
\* awaits the provider
C31_Witness ==
    /\ options.enableRateLimit
    /\ Len(calls) = 2
    /\ calls[1].pc # "done"
    /\ \E o \in ops : o.id = 1
    /\ calls[2].pc = "done"
    /\ FailedFrom(calls[2], "RateLimitError")
    /\ state.isLimited /\ state.requests = maxRequests

----------------------------------------------------------------------------
(* Two caches given the same set, get, delete and clear calls; clean() only on the first *)

TwinFrame ==
    UNCHANGED <<limiterVars, defaultTTL, shadow, options, calls, ops, timers, raceLog,
                invoked, providerCalls, completed, keyed, heap, retryRun, returnedAt,
                debounced>>

TwinSet(key, value, ttl) ==
    /\ cache' = CacheSet(cache, key, value, ttl, defaultTTL, now)
    /\ twin' = CacheSet(twin, key, value, ttl, defaultTTL, now)
    /\ last' = [op |-> "set", key |-> key, value |-> value, ttl |-> ttl]
    /\ UNCHANGED now /\ TwinFrame

TwinGet(key) ==
    LET r == CacheGet(cache, key, now)
        r2 == CacheGet(twin, key, now)
    IN  /\ cache' = r.cache
        /\ twin' = r2.cache
        /\ last' = [op |-> "get", key |-> key, ret |-> r.value, twinRet |-> r2.value]
        /\ UNCHANGED now /\ TwinFrame

TwinDelete(key) ==
    /\ cache' = CacheDelete(cache, key).cache
    /\ twin' = CacheDelete(twin, key).cache
    /\ last' = [op |-> "delete", key |-> key]
    /\ UNCHANGED now /\ TwinFrame

TwinClear ==
    /\ cache' = CacheClear(cache)
    /\ twin' = CacheClear(twin)
    /\ last' = [op |-> "clear"]
    /\ UNCHANGED now /\ TwinFrame

\* clean() on the first cache only
TwinClean ==
    LET r == CacheClean(cache, now)
    IN  /\ cache' = r.cache
        /\ last' = [op |-> "clean", ret |-> r.cleaned]
        /\ UNCHANGED <<now, twin>> /\ TwinFrame

TwinTick ==
    /\ now < MaxCacheTime
    /\ now' = now + 1
    /\ last' = NoCall
    /\ UNCHANGED <<cache, twin>> /\ TwinFrame

NextTwin ==
    \/ \E key \in Keys, value \in Values, ttl \in TTLArgs : TwinSet(key, value, ttl)
    \/ \E key \in Keys : TwinGet(key)
    \/ \E key \in Keys : TwinDelete(key)
    \/ TwinClear
    \/ TwinClean
    \/ TwinTick

SpecTwin == InitCache /\ [][NextTwin]_vars

\* C32: whatever clean() calls are inserted among the set, get, delete and clear calls
\* and clock advances, every get returns what it returns without them; the cache that is
\* cleaned differs from the one that is not only by expired entries it no longer stores.
C32_CleanNeverNeeded ==
    /\ last.op = "get" => last.ret = last.twinRet
    /\ \A k \in DOMAIN cache : k \in DOMAIN twin /\ twin[k] = cache[k]
    /\ \A k \in (DOMAIN twin) \ (DOMAIN cache) : Expired(twin[k], now)

\* clean() has removed an expired entry that the other cache still stores, and a get of
\* the other key then returned its value from both
C32_Witness ==
    /\ last.op = "get"
    /\ last.ret # NULL /\ last.ret = last.twinRet
    /\ DOMAIN cache = {last.key}
    /\ DOMAIN twin = Keys

----------------------------------------------------------------------------
(* Client.getCacheStats / Client.clearCache *)

\* C33: getCacheStats() removes every expired entry and no other, and returns
\* size = the number of entries left and cleaned = the number it removed, so that
\* size + cleaned is the number stored before the call; called right after clearCache()
\* it returns size 0 and cleaned 0.
C33_StatsEvictExpired ==
    [][last'.op = "getCacheStats" =>
          LET dead == {k \in DOMAIN cache : now - cache[k].timestamp > cache[k].ttl}
          IN  /\ DOMAIN cache' = (DOMAIN cache) \ dead
              /\ \A k \in DOMAIN cache' : cache'[k] = cache[k]
              /\ last'.ret.size = Cardinality(DOMAIN cache')
              /\ last'.ret.cleaned = Cardinality(dead)
              /\ last'.ret.size + last'.ret.cleaned = Cardinality(DOMAIN cache)
              /\ last.op = "clearCache" => last'.ret = [size |-> 0, cleaned |-> 0]]_vars

\* getCacheStats() found two entries, removed the expired one and kept the other
C33_Witness ==
    /\ last.op = "getCacheStats"
    /\ last.sizeBefore = 2
    /\ last.ret = [size |-> 1, cleaned |-> 1]
    /\ CacheSize(cache) = 1

----------------------------------------------------------------------------
(* Client: what a failing call leaves in the cache *)

\* C34 as claimed, for the first call made on a client: if the call fails at a stage
\* after the cache check, the cache is as it was before the call, that is empty.
C34_FailedCallWritesNothing ==
    (/\ Len(calls) = 1
     /\ calls[1].pc = "done"
     /\ Value(calls[1].outcome).kind = "throw"
     /\ Value(calls[1].outcome).origin # "ValidationError")
    => cache = <<>>

\* the key was made by generateKey('search', ...)
IsSearchKey(k) == Len(k) > Len(S_search) /\ SubSeq(k, 1, Len(S_search)) = S_search

\* C34, amended: a step of a call in which the call does not return writes no cache
\* entry, except that a step of getLyricsByMetadata may write the 'search' entry of its
\* nested searchSong; and the only entries a step removes are expired ones. So a call
\* that fails has written nothing, or, for getLyricsByMetadata, only that search entry.
C34_OnlySearchEntryOnFailure ==
    [][\A i \in 1..Len(calls') :
          LET acts == i > Len(calls) \/ calls'[i] # calls[i]
              written == {k \in DOMAIN cache' : k \notin DOMAIN cache \/ cache'[k] # cache[k]}
              returns == IF calls'[i].pc = "done"
                         THEN Value(calls'[i].outcome).kind = "return" ELSE FALSE
          IN  acts =>
                /\ (~returns /\ written # {}) =>
                      /\ calls'[i].op = "getLyricsByMetadata"
                      /\ \A k \in written : IsSearchKey(k)
                /\ \A k \in (DOMAIN cache) \ (DOMAIN cache') :
                      now - cache[k].timestamp > cache[k].ttl]_vars

\* a getLyricsByMetadata call, the first on its client, has failed by timeout at its
\* lyrics stage and the cache holds the search entry of its nested searchSong
C34_Witness ==
    /\ Len(calls) = 1
    /\ calls[1].op = "getLyricsByMetadata"
    /\ FailedFrom(calls[1], "TimeoutError")
    /\ CacheSize(cache) = 1
    /\ \A k \in DOMAIN cache : IsSearchKey(k)

----------------------------------------------------------------------------
(* Client: identical calls in flight together *)

\* the cache key of a call of searchSong, findLyrics, getUnsynced or getSynced
OwnKey(c) ==
    IF c.op = "searchSong" THEN SearchKey(validateQuery(c.query).value, c.opts)
    ELSE IF c.op = "findLyrics" THEN MetadataKey(validateQuery(c.query).value)
    ELSE LyricsKey(c.op, validateQuery(c.query).value, c.opts)

SameRequest(c, d) == c.op = d.op /\ c.query = d.query /\ c.opts = d.opts

\* C35: a call made while a call of the same operation, query and options awaits the
\* provider is not joined to it: it misses the cache, runs the rate check and, unless
\* the limiter rejects it, is counted by the limiter and starts a provider operation of
\* its own; and once two such calls have both returned what the provider gave them, the
\* cache holds under their key the one entry stored by the call that finished last.
C35_NoCoalescing ==
    [][/\ (/\ Len(calls) = 1 /\ Len(calls') = 2
            /\ calls[1].pc # "done"
            /\ calls[1].op \in CachedOps
            /\ SameRequest(calls[1], calls'[2]))
           => IF calls'[2].pc = "done"
              THEN /\ options.enableRateLimit
                   /\ FailedFrom(calls'[2], "RateLimitError")
                   /\ state.requests >= maxRequests /\ now - state.windowStart < windowMs
                   /\ providerCalls' = providerCalls
              ELSE /\ providerCalls' = providerCalls + 1
                   /\ \E o \in ops' \ ops : o.id = 2
                   /\ options.enableRateLimit =>
                         state'.requests = IF now - state.windowStart >= windowMs
                                           THEN 1 ELSE state.requests + 1
       /\ (/\ options.enableCache
            /\ Len(calls') = 2
            /\ calls'[1].op \in CachedOps
            /\ SameRequest(calls'[1], calls'[2])
            /\ \A id \in 1..2 : /\ calls'[id].pc = "done"
                                 /\ Value(calls'[id].outcome).kind = "return"
                                 /\ raceLog'[id][1].settled # <<>>)
           => LET k == <<calls'[1].op, calls'[1].query, calls'[1].opts>>
                  key == OwnKey(calls'[1])
              IN  /\ key \in DOMAIN cache'
                  /\ cache'[key].data = completed'[k].value
                  /\ cache'[key].timestamp = completed'[k].at
                  /\ \E id \in 1..2 : Value(calls'[id].outcome).value = cache'[key].data]_vars

\* two identical searches are in flight together, with caching and rate limiting on: each
\* was let through by the limiter (the second in a new window) and each has its own
\* provider operation pending; nothing is stored yet
C35_Witness ==
    /\ options.enableCache /\ options.enableRateLimit
    /\ Len(calls) = 2
    /\ calls[1].op = "searchSong"
    /\ SameRequest(calls[1], calls[2])
    /\ \A id \in 1..2 : calls[id].pc = "await1" /\ \E o \in ops : o.id = id
    /\ providerCalls = 2
    /\ state.requests = 1 /\ state.windowStart = DefaultWindowMs
    /\ cache = <<>>

----------------------------------------------------------------------------
(* Client: requests counted by the limiter stay counted *)

\* C36: a step in which a call fails after its rate check (timeout, provider failure,
\* not found, formatting failure) leaves the limiter as it is, and getLyricsById is
\* counted although it always fails; the count is lowered only by resetRateLimit() or
\* by a checkLimit() that starts a new window once the old one has elapsed.
C36_CountedStaysCounted ==
    [][/\ state'.requests < state.requests =>
            \/ last'.op = "resetRateLimit"
            \/ /\ now - state.windowStart >= windowMs
               /\ state'.windowStart = now
               /\ Len(calls') = Len(calls) + 1
       /\ \A i \in 1..Len(calls) :
            (calls[i].pc # "done" /\ calls'[i].pc = "done") => state' = state
       /\ (/\ Len(calls') = Len(calls) + 1
           /\ options.enableRateLimit
           /\ calls'[Len(calls')].op = "getLyricsById"
           /\ FailedFrom(calls'[Len(calls')], "NotFoundError"))
          => state'.requests = IF now - state.windowStart >= windowMs
                               THEN 1 ELSE state.requests + 1]_vars

\* a search let through by the limiter has timed out: its request is still counted
C36_Witness ==
    /\ options.enableRateLimit
    /\ Len(calls) = 1
    /\ calls[1].op = "searchSong"
    /\ FailedFrom(calls[1], "TimeoutError")
    /\ state = [requests |-> 1, windowStart |-> 0, isLimited |-> FALSE]
    /\ now < windowMs
    /\ last.op = "getRateLimitStatus"
    /\ last.ret.requests = 1

----------------------------------------------------------------------------
(* Client.getLyricsByMetadata and the limiter *)

\* clients that allow ClientMaxRequests requests per minute, or one more
InitLimits == NewClient({ClientMaxRequests, ClientMaxRequests + 1})

SpecLimits == InitLimits /\ [][NextMaintenance]_vars

\* C37: with rate limiting on, a getLyricsByMetadata call that misses its own key and
\* the search key and reaches the provider has run checkLimit() twice and raised the
\* count by exactly 2 (from 0 if the window had elapsed); when a check rejects it the
\* count is at maxRequests; and with maxRequestsPerMinute = 1 and an empty cache the
\* call always fails.
C37_ByMetadataCountsTwice ==
    [][(/\ Len(calls') = Len(calls) + 1
        /\ calls'[Len(calls')].op = "getLyricsByMetadata"
        /\ options.enableRateLimit)
       => LET c == calls'[Len(calls')]
              base == IF now - state.windowStart >= windowMs THEN 0 ELSE state.requests
          IN  /\ c.pc = "await1" =>
                    /\ state'.requests = base + 2
                    /\ providerCalls' = providerCalls + 1
              /\ FailedFrom(c, "RateLimitError") =>
                    /\ state'.requests = maxRequests
                    /\ state'.requests \in {base, base + 1}
                    /\ providerCalls' = providerCalls
              /\ (maxRequests = 1 /\ cache = <<>>) =>
                    /\ c.pc = "done"
                    /\ Value(c.outcome).kind = "throw"]_vars

\* under a limit of 2 a getLyricsByMetadata call on a fresh client awaits its search,
\* having used both requests of the window
C37_Witness ==
    /\ options.enableRateLimit
    /\ maxRequests = 2
    /\ Len(calls) = 1
    /\ calls[1].op = "getLyricsByMetadata"
    /\ calls[1].pc = "await1"
    /\ state = [requests |-> 2, windowStart |-> 0, isLimited |-> FALSE]
    /\ providerCalls = 1

----------------------------------------------------------------------------
(* Cache.generateKey: different parameters, different keys *)

\* C38: under one prefix, generateKey yields different keys for two parameter maps that
\* differ in their names or in a value, values that contain ':' or '|' included.
C38_DifferentParamsDifferentKeys ==
    \A i, j \in 1..Len(keyed) :
        (/\ keyed[i].prefix = keyed[j].prefix
         /\ ~SamePairs(keyed[i].query, keyed[j].query))
        => keyed[i].key # keyed[j].key

----------------------------------------------------------------------------
(* utils: retry, its attempts and its waits *)

\* C39: retry(fn, maxRetries, baseDelay) invokes fn at most maxRetries + 1 times; the
\* first invocation that succeeds is the last and retry returns its value; the
\* re-attempt after failed attempt i (from 0) is made baseDelay * 2^i after that failure
\* or later, never sooner; and when attempt maxRetries fails retry fails with that
\* failure at once, without a further wait. Between attempts retry is always either
\* awaiting fn or asleep until a set time, so it ends when fn's invocations do.
C39_RetryBackoff ==
    retryRun.pc # "idle" =>
        LET r == retryRun
            n == Len(r.results)
        IN  /\ r.invocations <= r.maxRetries + 1
            /\ r.invocations = Len(r.invokedAt)
            /\ r.invocations = IF r.pc = "calling" THEN n + 1 ELSE n
            /\ \A k \in 1..n : r.results[k].kind = "resolve" =>
                    /\ k = n
                    /\ r.pc = "done"
                    /\ r.outcome = Some(Ok(r.results[k].value))
            /\ \A k \in 2..Len(r.invokedAt) :
                    r.invokedAt[k] >= r.settledAt[k - 1] + r.baseDelay * (2 ^ (k - 2))
            /\ r.pc = "sleeping" =>
                    /\ n <= r.maxRetries
                    /\ r.results[n].kind = "reject"
                    /\ r.wakeAt = r.settledAt[n] + r.baseDelay * (2 ^ (n - 1))
            /\ (n = r.maxRetries + 1 /\ r.results[n].kind = "reject") =>
                    /\ r.pc = "done"
                    /\ r.outcome = Some(Throw(r.results[n].name, r.results[n].name))
            /\ r.pc = "done" =>
                    \/ r.results[n].kind = "resolve"
                    \/ n = r.maxRetries + 1

\* retry(fn, 2, 1): fn failed at 0 ms, again at 1 ms (after a 1 ms wait) and, after a
\* further 2 ms, a third time at 3 ms; retry failed then with the last failure
C39_Witness ==
    /\ retryRun.pc = "done"
    /\ retryRun.maxRetries = 2
    /\ retryRun.invocations = 3
    /\ retryRun.invokedAt = <<0, 1, 3>>
    /\ retryRun.settledAt = <<0, 1, 3>>
    /\ retryRun.results[2].name = "RateLimitError"
    /\ retryRun.outcome = Some(Throw("TimeoutError", "TimeoutError"))
    /\ now = 3

----------------------------------------------------------------------------
(* utils: debounce(func, wait) *)

MaxDebounceWait == 2
MaxDebounceCalls == 3
MaxDebounceMs == 5

\* the argument lists the debounced function is called with
DebounceArgs == {"a", "b"}

\* a debounced function that leaves the timer of the previous call in place
debouncedCall_keepsTimer(d, args, t) ==
    [d EXCEPT !.timers = @ \cup {[id |-> d.nextId, due |-> t + d.wait, args |-> args]},
              !.timeout = d.nextId,
              !.nextId = @ + 1]

\* (...args) => { clearTimeout(timeout); timeout = setTimeout(() => func(...args), wait); }
\* clearTimeout of undefined, or of a timer that has fired, does nothing
debouncedCall(d, args, t) ==
    [d EXCEPT !.timers = {x \in @ : x.id # d.timeout}
                             \cup {[id |-> d.nextId, due |-> t + d.wait, args |-> args]},
              !.timeout = d.nextId,
              !.nextId = @ + 1]

InitDebounce == InitRetry

DebounceFrame ==
    UNCHANGED <<limiterVars, cacheVars, last, options, calls, ops, timers, raceLog, invoked,
                providerCalls, completed, keyed, heap, retryRun, returnedAt, twin>>

\* debounce(func, wait): let timeout (undefined); the closure is returned
MakeDebounce(wait) ==
    /\ ~debounced.made
    /\ debounced' = [made |-> TRUE, wait |-> wait, timeout |-> 0, nextId |-> 1,
                     timers |-> {}, log |-> <<>>]
    /\ UNCHANGED now /\ DebounceFrame

\* the debounced function is called; log is the history of its calls and of func's runs
DebouncedCall(args) ==
    /\ debounced.made
    /\ Cardinality({p \in DOMAIN debounced.log : debounced.log[p].type = "call"})
            < MaxDebounceCalls
    /\ LET d == debouncedCall(debounced, args, now)
       IN  debounced' = [d EXCEPT !.log = Append(@, [type |-> "call", at |-> now,
                                                     args |-> args, id |-> debounced.nextId,
                                                     cleared |-> debounced.timers \ d.timers # {}])]
    /\ UNCHANGED now /\ DebounceFrame

\* a timer set by setTimeout(..., wait) runs its callback, wait after it was set or later
DebounceTimerFires ==
    /\ debounced.made
    /\ \E x \in debounced.timers :
          /\ now >= x.due
          /\ debounced' = [debounced EXCEPT !.timers = @ \ {x},
                                            !.log = Append(@, [type |-> "run", at |-> now,
                                                               args |-> x.args, id |-> x.id,
                                                               cleared |-> FALSE])]
    /\ UNCHANGED now /\ DebounceFrame

DebounceTick ==
    /\ now < MaxDebounceMs
    /\ now' = now + 1
    /\ UNCHANGED debounced /\ DebounceFrame

NextDebounce ==
    \/ \E wait \in 1..MaxDebounceWait : MakeDebounce(wait)
    \/ \E args \in DebounceArgs : DebouncedCall(args)
    \/ DebounceTimerFires
    \/ DebounceTick

SpecDebounce == InitDebounce /\ [][NextDebounce]_vars

\* the positions in the log of the calls of the debounced function
CallPositions == {p \in DOMAIN debounced.log : debounced.log[p].type = "call"}

\* the positions of func's runs between position q and position p
RunsBetween(q, p) == {r \in (q + 1)..(p - 1) : debounced.log[r].type = "run"}

\* q and p are calls with no call between them
NextCall(q, p) ==
    /\ q \in CallPositions /\ p \in CallPositions /\ q < p
    /\ \A c \in CallPositions : ~(q < c /\ c < p)

\* func runs only wait or more after the call whose arguments it gets, that call being
\* the latest one made; a call made less than wait after the previous one finds its timer
\* pending and cancels it; at most one timer is pending, that of the latest call
DebounceSafe ==
    LET log == debounced.log
    IN  /\ \A r \in DOMAIN log : log[r].type = "run" =>
              \E q \in CallPositions :
                 /\ q < r /\ \A c \in CallPositions : ~(q < c /\ c < r)
                 /\ log[r].id = log[q].id /\ log[r].args = log[q].args
                 /\ log[r].at >= log[q].at + debounced.wait
                 /\ RunsBetween(q, r) = {}
        /\ \A q, p \in CallPositions :
              (NextCall(q, p) /\ log[p].at - log[q].at < debounced.wait) =>
                  /\ RunsBetween(q, p) = {}
                  /\ log[p].cleared
        /\ Cardinality(debounced.timers) <= 1
        /\ \A x \in debounced.timers :
              /\ log # <<>> /\ log[Len(log)].type = "call"
              /\ x.id = log[Len(log)].id /\ x.args = log[Len(log)].args
              /\ x.due = log[Len(log)].at + debounced.wait

\* C40 as stated: besides the above, every burst that a later call has followed (wait or
\* more after the burst's last call) has had exactly one run of func.
C40_OncePerBurst ==
    debounced.made =>
        /\ DebounceSafe
        /\ \A q, p \in CallPositions :
              (NextCall(q, p) /\ debounced.log[p].at - debounced.log[q].at >= debounced.wait) =>
                  Cardinality(RunsBetween(q, p)) = 1

\* C40, amended: func runs only wait or more after the latest call, with that call's
\* arguments; every call cancels the pending timer of the previous one, so for a burst of
\* calls spaced less than wait apart func runs at most once, for the last call of the
\* burst, and exactly once when that call's timer fires before the next call is made: a
\* call made once wait has passed but before the timer's callback has run cancels it.
C40_OncePerBurstIfTimerRuns ==
    debounced.made =>
        /\ DebounceSafe
        /\ \A q, p \in CallPositions : NextCall(q, p) =>
              /\ Cardinality(RunsBetween(q, p)) = (IF debounced.log[p].cleared THEN 0 ELSE 1)
        /\ \A q \in CallPositions : (\A c \in CallPositions : c <= q) =>
              Cardinality(RunsBetween(q, Len(debounced.log) + 1))
                  = (IF debounced.timers = {} THEN 1 ELSE 0)

\* debounce(func, 2): calls with "a" at 0 ms and "b" at 1 ms, func("b") runs at 3 ms; a
\* call with "a" at 5 ms starts the next burst
C40_Witness ==
    /\ debounced.made /\ debounced.wait = 2
    /\ Len(debounced.log) = 4
    /\ debounced.log[1] = [type |-> "call", at |-> 0, args |-> "a", id |-> 1, cleared |-> FALSE]
    /\ debounced.log[2] = [type |-> "call", at |-> 1, args |-> "b", id |-> 2, cleared |-> TRUE]
    /\ debounced.log[3] = [type |-> "run", at |-> 3, args |-> "b", id |-> 2, cleared |-> FALSE]
    /\ debounced.log[4] = [type |-> "call", at |-> 5, args |-> "a", id |-> 3, cleared |-> FALSE]
    /\ debounced.timers = {[id |-> 3, due |-> 7, args |-> "a"]}

====
